---- MODULE Spec2Model ----
(***************************************************************************)
(* getblobz: the synchronisation engine.                                   *)
(*                                                                         *)
(* One Syncer process mirrors a remote container onto a local directory:   *)
(* Start() runs discovery (paginated listing, diff against the state       *)
(* store), download (a pool of workers draining a snapshot of the pending  *)
(* records, with retry and write-then-rename commit) and completion.       *)
(* Stop() cancels the shared context and waits on the WaitGroup.  The      *)
(* sync command's loop (runSync) calls Start(), and in watch mode sleeps   *)
(* and calls it again; its signal goroutine calls Stop().  The             *)
(* state store (SQLite) and the filesystem outlive the process; the        *)
(* process may die at any point and a new one may be started on the same   *)
(* store and directory.                                                    *)
(*                                                                         *)
(* Environment: the remote listing is fixed during a behaviour; every      *)
(* state-store call succeeds; remote fetches, directory/file creation and  *)
(* rename may fail, at most MaxFaults times per behaviour.                 *)
(*                                                                         *)
(* Spec is the command and its passes; FairSpec adds the scheduler's       *)
(* fairness;                                                               *)
(* DiscoverySpec runs discovery over a store left by earlier passes;       *)
(* StoreSpec exercises the state store's upsert on its own;                *)
(* OrganizerSpec runs the folder organizer under concurrent callers, over  *)
(* a directory tree left by earlier processes; ClassifySpec applies the    *)
(* error classification to error texts.                                    *)
(***************************************************************************)
EXTENDS Integers, Sequences, FiniteSets, TLC

(* ---------------------------- bounds ----------------------------------- *)
MaxPasses == 2
MaxFaults == 1
MaxListCalls == 3
MaxCalls == 4
MaxCallers == 2
MaxResolves == 10
MaxOrganizers == 2
MaxMarkers == 2

(* ------------------------ program constants ---------------------------- *)
maxRetries == 3
Workers == 2
BatchSize == 2
DiskWarnPercent == 80
DiskStopPercent == 90

WorkerIds == 0..(Workers - 1)

BlobStatusPending == "pending"
BlobStatusDownloaded == "downloaded"
BlobStatusFailed == "failed"
BlobStatusSkipped == "skipped"

SyncStatusRunning == "running"
SyncStatusCompleted == "completed"
SyncStatusFailed == "failed"

ErrorTypeNetwork == "network"
ErrorTypeChecksum == "checksum"
ErrorTypeDisk == "disk"
ErrorTypeAuth == "auth"
ErrorTypeUnknown == "unknown"

Nil == "nil"

(* Marker substrings searched by classifyError; a Go string is modelled as *)
(* the sequence of its characters.                                        *)
S_checksum ==
    <<"c","h","e","c","k","s","u","m">>
S_md5 ==
    <<"m","d","5">>
S_network ==
    <<"n","e","t","w","o","r","k">>
S_timeout ==
    <<"t","i","m","e","o","u","t">>
S_connection ==
    <<"c","o","n","n","e","c","t","i","o","n">>
S_disk ==
    <<"d","i","s","k">>
S_space ==
    <<"s","p","a","c","e">>
S_permission ==
    <<"p","e","r","m","i","s","s","i","o","n">>
S_auth ==
    <<"a","u","t","h">>
S_unauthorized ==
    <<"u","n","a","u","t","h","o","r","i","z","e","d">>

(* Wrapping prefixes added by downloadBlob and Client.DownloadBlob (fmt.Errorf with %w). *)
P_downloadFailed ==
    <<"d","o","w","n","l","o","a","d"," ","f","a","i","l","e","d",":"," ">>
P_failedToDownloadBlob ==
    <<"f","a","i","l","e","d"," ","t","o"," ","d","o","w","n","l","o","a","d"," ","b","l","o","b",":"," ">>
P_createDir ==
    <<"f","a","i","l","e","d"," ","t","o"," ","c","r","e","a","t","e"," ","d","i","r","e","c","t","o","r","y",":"," ">>
P_createTemp ==
    <<"f","a","i","l","e","d"," ","t","o"," ","c","r","e","a","t","e"," ","t","e","m","p"," ","f","i","l","e",":"," ">>
P_renameTemp ==
    <<"f","a","i","l","e","d"," ","t","o"," ","r","e","n","a","m","e"," ","t","e","m","p"," ","f","i","l","e",":"," ">>

(* Causes the operating system and the remote store report. *)
T_connReset ==
    <<"c","o","n","n","e","c","t","i","o","n"," ","r","e","s","e","t">>
T_unauthorized ==
    <<"u","n","a","u","t","h","o","r","i","z","e","d">>
T_ctxCanceled ==
    <<"c","o","n","t","e","x","t"," ","c","a","n","c","e","l","e","d">>
T_permDenied ==
    <<"p","e","r","m","i","s","s","i","o","n"," ","d","e","n","i","e","d">>
T_noSpace ==
    <<"n","o"," ","s","p","a","c","e"," ","l","e","f","t"," ","o","n"," ","d","e","v","i","c","e">>

(* fmt.Errorf("checksum mismatch: expected %s, got %s", ...) with two hex digests. *)
T_checksumMismatch ==
    <<"c","h","e","c","k","s","u","m"," ","m","i","s","m","a","t","c","h",":"," ","e","x","p","e","c","t","e","d"," ","0","a",","," ","g","o","t"," ","0","b">>
(* fmt.Errorf("disk usage %d%% >= stop threshold %d%%", usage, stop). *)
T_diskStop ==
    <<"d","i","s","k"," ","u","s","a","g","e"," ","9","5","%"," ",">","="," ","s","t","o","p"," ","t","h","r","e","s","h","o","l","d"," ","9","0","%">>

(* --------------------- error texts and classification ------------------ *)
ErrText ==
       "E_CHECKSUM" :> T_checksumMismatch
    @@ "E_NETWORK"  :> P_downloadFailed \o P_failedToDownloadBlob \o T_connReset
    @@ "E_AUTH"     :> P_downloadFailed \o P_failedToDownloadBlob \o T_unauthorized
    @@ "E_CANCELED" :> P_downloadFailed \o P_failedToDownloadBlob \o T_ctxCanceled
    @@ "E_MKDIR"    :> P_createDir \o T_permDenied
    @@ "E_CREATE"   :> P_createTemp \o T_permDenied
    @@ "E_RENAME"   :> P_renameTemp \o T_noSpace
    @@ "E_STOP"     :> T_diskStop

ErrIds == DOMAIN ErrText

(* indexOf: the first index (0-based) at which substr occurs in s, or -1. *)
indexOf(s, substr) ==
    LET hits == {i \in 0..(Len(s) - Len(substr)) :
                    SubSeq(s, i + 1, i + Len(substr)) = substr}
    IN IF hits = {} THEN -1
       ELSE CHOOSE i \in hits : \A j \in hits : i <= j

contains(s, substr) ==
    /\ Len(s) >= Len(substr)
    /\ \/ s = substr
       \/ /\ Len(s) > Len(substr)
          /\ \/ SubSeq(s, 1, Len(substr)) = substr
             \/ SubSeq(s, Len(s) - Len(substr) + 1, Len(s)) = substr
             \/ indexOf(s, substr) >= 0

(* A nil error. *)
NilError == <<"<nil>">>

(* classifyError that looks for the network markers first. *)
classifyErrorNetworkFirst(errStr) ==
    IF errStr = NilError THEN ErrorTypeUnknown
    ELSE IF \/ contains(errStr, S_network)
            \/ contains(errStr, S_timeout)
            \/ contains(errStr, S_connection)
    THEN ErrorTypeNetwork
    ELSE IF contains(errStr, S_checksum) \/ contains(errStr, S_md5)
    THEN ErrorTypeChecksum
    ELSE IF \/ contains(errStr, S_disk)
            \/ contains(errStr, S_space)
            \/ contains(errStr, S_permission)
    THEN ErrorTypeDisk
    ELSE IF contains(errStr, S_auth) \/ contains(errStr, S_unauthorized)
    THEN ErrorTypeAuth
    ELSE ErrorTypeUnknown

classifyError(errStr) ==
    IF errStr = NilError THEN ErrorTypeUnknown
    ELSE IF contains(errStr, S_checksum) \/ contains(errStr, S_md5)
    THEN ErrorTypeChecksum
    ELSE IF \/ contains(errStr, S_network)
            \/ contains(errStr, S_timeout)
            \/ contains(errStr, S_connection)
    THEN ErrorTypeNetwork
    ELSE IF \/ contains(errStr, S_disk)
            \/ contains(errStr, S_space)
            \/ contains(errStr, S_permission)
    THEN ErrorTypeDisk
    ELSE IF contains(errStr, S_auth) \/ contains(errStr, S_unauthorized)
    THEN ErrorTypeAuth
    ELSE ErrorTypeUnknown

(* isRetryable that also retries disk errors, and one that retries network  *)
(* errors only.                                                            *)
isRetryableDiskToo(errStr) ==
    classifyError(errStr) \in {ErrorTypeNetwork, ErrorTypeChecksum, ErrorTypeDisk}

isRetryableNetworkOnly(errStr) ==
    classifyError(errStr) = ErrorTypeNetwork

isRetryable(errStr) ==
    IF errStr = NilError THEN FALSE
    ELSE LET errType == classifyError(errStr)
         IN errType = ErrorTypeNetwork \/ errType = ErrorTypeChecksum

(* Classification of each error the model can raise, computed once. *)
ErrClass == [e \in ErrIds |-> classifyError(ErrText[e])]
ErrRetryable == [e \in ErrIds |-> isRetryable(ErrText[e])]

(* ------------------------------ remote store --------------------------- *)
(* The objects a container may hold.  "a.tmp" is an ordinary object key.   *)
Keys == {"a", "a.tmp", "b"}

(* Azure lists blobs in lexicographic order of their names. *)
KeyOrder == <<"a", "a.tmp", "b">>

(* A blob without a Content-MD5 property: the empty byte slice. *)
NoMD5 == <<>>

(* md5.Sum of an object's content, and a reference hash of other content. *)
Digest(k) == <<"md5", k>>
StaleDigest == <<"md5", "stale">>

(* Properties of each object: "a" carries a correct Content-MD5, "a.tmp"   *)
(* carries none, "b" carries one that its content never matches.           *)
Objects ==
       "a"     :> [ContentLength |-> 1, ETag |-> "e1", LastModified |-> 100,
                    ContentMD5 |-> Digest("a")]
    @@ "a.tmp" :> [ContentLength |-> 2, ETag |-> "e2", LastModified |-> 200,
                    ContentMD5 |-> NoMD5]
    @@ "b"     :> [ContentLength |-> 3, ETag |-> "e3", LastModified |-> 300,
                    ContentMD5 |-> StaleDigest]

(* time.Time.Format / time.Parse with layout "2006-01-02T15:04:05Z": an    *)
(* instant is a number of seconds, its rendering a tagged pair; a string   *)
(* that is not such a rendering parses (error ignored) to the zero time.   *)
ZeroTime == 0
FormatTime(t) == <<"2006-01-02T15:04:05Z", t>>
ParseTime(s) ==
    IF Len(s) = 2 /\ s[1] = "2006-01-02T15:04:05Z" THEN s[2] ELSE ZeroTime

(* fmt.Sprintf("%x", bytes) and hex.EncodeToString(bytes). *)
Hex(bytes) == <<"hex", bytes>>

BlobInfo(k) ==
    [Name |-> k, Path |-> k, Size |-> Objects[k].ContentLength,
     ETag |-> Objects[k].ETag,
     LastModified |-> FormatTime(Objects[k].LastModified),
     ContentMD5 |-> Objects[k].ContentMD5]

Min(a, b) == IF a <= b THEN a ELSE b

RECURSIVE Listing(_, _)
(* The names of the container's blobs (already filtered by the prefix), in *)
(* listing order, starting at position i of KeyOrder.                      *)
Listing(r, i) ==
    IF i > Len(KeyOrder) THEN <<>>
    ELSE IF KeyOrder[i] \in r THEN <<KeyOrder[i]>> \o Listing(r, i + 1)
    ELSE Listing(r, i + 1)

NumPages(r) ==
    LET n == Len(Listing(r, 1))
    IN IF n = 0 THEN 1 ELSE (n + BatchSize - 1) \div BatchSize

(* Client.ListBlobs: a new pager on every call, of which the first page is *)
(* read; NextMarker is returned as the continuation token.                 *)
ListBlobs(r, maxResults) ==
    LET all == Listing(r, 1)
        n == Min(Len(all), maxResults)
    IN [blobs |-> [i \in 1..n |-> BlobInfo(all[i])],
        token |-> IF Len(all) > maxResults THEN all[n + 1] ELSE Nil]

(* ------------------------------ filesystem ----------------------------- *)
OutputPath == "./data"
LocalPathOf(path) == OutputPath \o "/" \o path
TmpPathOf(localPath) == localPath \o ".tmp"

Paths == {LocalPathOf(k) : k \in Keys} \cup {TmpPathOf(LocalPathOf(k)) : k \in Keys}

NoFile == [absent |-> TRUE]
NoIno == -1

(* os.Create: a new or truncated file, open for writing by worker w. *)
Create(f, path, k, w) == [f EXCEPT ![path] = [obj |-> k, full |-> FALSE, ino |-> w]]
(* The stream copied in full into the file worker w holds open. *)
WriteAll(f, w) ==
    [p \in Paths |-> IF f[p] # NoFile /\ f[p].ino = w
                     THEN [f[p] EXCEPT !.full = TRUE] ELSE f[p]]
Close(f, w) ==
    [p \in Paths |-> IF f[p] # NoFile /\ f[p].ino = w
                     THEN [f[p] EXCEPT !.ino = NoIno] ELSE f[p]]
(* An os.Remove that removes nothing. *)
RemoveNothing(f, path) == f
Remove(f, path) == [f EXCEPT ![path] = NoFile]
Rename(f, src, dst) == [f EXCEPT ![dst] = f[src], ![src] = NoFile]

(* ------------------------------ state store ---------------------------- *)
NoRecord == [absent |-> TRUE]
NoRunID == 0

(* The database after the schema is created: no row in blob_state.  The  *)
(* table is kept as a function of the name (blob_name is UNIQUE) together *)
(* with "rowids", the names of its rows by ascending id.  The id column  *)
(* is INTEGER PRIMARY KEY AUTOINCREMENT and no row is ever deleted, so    *)
(* this is the order in which the names were first inserted; no code      *)
(* reads the value of an id.                                              *)
EmptyStore ==
    [k \in Keys \cup {"rowids"} |-> IF k = "rowids" THEN <<>> ELSE NoRecord]

(* An UPDATE ... WHERE blob_name = ? in place of the upsert: a new name    *)
(* gets no row.                                                           *)
UpsertUpdateOnly(table, blob) ==
    IF table[blob.BlobName] = NoRecord THEN table
    ELSE [table EXCEPT ![blob.BlobName] =
              [blob EXCEPT !.FirstSeenAt = table[blob.BlobName].FirstSeenAt]]

(* An upsert that overwrites first_seen_at as well. *)
UpsertReplaceAll(table, blob) ==
    IF table[blob.BlobName] = NoRecord
    THEN [table EXCEPT ![blob.BlobName] = blob,
                       !["rowids"] = Append(@, blob.BlobName)]
    ELSE [table EXCEPT ![blob.BlobName] = blob]

(* INSERT ... ON CONFLICT(blob_name) DO UPDATE.  A new name inserts the    *)
(* given record as a new row, whose id is above every id given before; an  *)
(* existing one keeps its row and takes every column of the given record   *)
(* but id and first_seen_at, which the statement does not assign.          *)
UpsertBlobState(table, blob) ==
    IF table[blob.BlobName] = NoRecord
    THEN [table EXCEPT ![blob.BlobName] = blob,
                       !["rowids"] = Append(@, blob.BlobName)]
    ELSE [table EXCEPT ![blob.BlobName] =
              [blob EXCEPT !.FirstSeenAt = table[blob.BlobName].FirstSeenAt]]

GetBlobState(table, name) == table[name]

RECURSIVE PendingFrom(_, _)
(* The pending rows from the i-th row on, by ascending id.  The query has *)
(* no ORDER BY; SQLite answers it from idx_status, whose entries of one   *)
(* status are in the order of the row ids.                                *)
PendingFrom(table, i) ==
    IF i > Len(table["rowids"]) THEN <<>>
    ELSE LET row == table[table["rowids"][i]]
         IN IF row.Status = BlobStatusPending
            THEN <<row>> \o PendingFrom(table, i + 1)
            ELSE PendingFrom(table, i + 1)

(* A query without the WHERE clause: every record, whatever its status. *)
GetAllBlobs(table) ==
    [i \in 1..Len(table["rowids"]) |-> table[table["rowids"][i]]]

(* SELECT ... FROM blob_state WHERE status = 'pending'. *)
GetPendingBlobs(table) == PendingFrom(table, 1)

(* fsUsagePercent: the readings the volume may give, and a failed statfs. *)
UsageReadings ==
    {[usage |-> 50, err |-> FALSE], [usage |-> 85, err |-> FALSE],
     [usage |-> 95, err |-> FALSE], [usage |-> 0, err |-> TRUE]}

(* --------------------------- folder organizer -------------------------- *)
(* Strings are sequences of characters; a character is a string of        *)
(* length one.                                                            *)
CharAt(s, i) == SubSeq(s, i, i)

(* fmt.Sprintf("%0<width>d", n): the decimal digits, zero padding after   *)
(* the sign.                                                              *)
SprintfPadded(n, width) ==
    LET RECURSIVE Itoa(_)
        Itoa(m) == IF m < 10 THEN CharAt("0123456789", m + 1)
                   ELSE Itoa(m \div 10) \o CharAt("0123456789", (m % 10) + 1)
        RECURSIVE PadLeft(_, _)
        PadLeft(s, w) == IF Len(s) >= w THEN s ELSE PadLeft("0" \o s, w)
    IN IF n < 0 THEN "-" \o PadLeft(Itoa(-n), width - 1)
       ELSE PadLeft(Itoa(n), width)

(* fmt.Sprintf("folder_%04d", index). *)
SequentialFolderName(index) == "folder_" \o SprintfPadded(index, 4)

(* fmt.Sscanf(name, "folder_%d", &idx): n, the number of items scanned,   *)
(* and idx.  The literal text must match; %d skips spaces, takes an       *)
(* optional sign, reads digits and underscores as long as they last and   *)
(* converts them in base 10, which accepts digits only; input left over   *)
(* is ignored.                                                            *)
SscanfFolder(name) ==
    LET lit == "folder_"
        fail == [n |-> 0, idx |-> 0]
        IsDigit(c) == \E d \in 0..9 : CharAt("0123456789", d + 1) = c
        DigitValue(c) == CHOOSE d \in 0..9 : CharAt("0123456789", d + 1) = c
        RECURSIVE SkipSpaces(_)
        SkipSpaces(i) ==
            IF i <= Len(name) /\ CharAt(name, i) \in {" ", "\t", "\r"}
            THEN SkipSpaces(i + 1) ELSE i
        RECURSIVE NumberEnd(_)
        NumberEnd(i) ==
            IF i <= Len(name) /\ (IsDigit(CharAt(name, i)) \/ CharAt(name, i) = "_")
            THEN NumberEnd(i + 1) ELSE i
        RECURSIVE ParseDecimal(_, _, _)
        ParseDecimal(i, end, acc) ==
            IF i > end THEN [ok |-> TRUE, value |-> acc]
            ELSE IF IsDigit(CharAt(name, i))
                 THEN ParseDecimal(i + 1, end, 10 * acc + DigitValue(CharAt(name, i)))
                 ELSE [ok |-> FALSE, value |-> 0]
    IN IF Len(name) < Len(lit) \/ SubSeq(name, 1, Len(lit)) # lit THEN fail
       ELSE LET i0 == SkipSpaces(Len(lit) + 1)
                signed == i0 <= Len(name) /\ CharAt(name, i0) \in {"+", "-"}
                i1 == IF signed THEN i0 + 1 ELSE i0
                i2 == NumberEnd(i1)
                mag == ParseDecimal(i1, i2 - 1, 0)
            IN IF i2 = i1 \/ ~IsDigit(CharAt(name, i1)) \/ ~mag.ok THEN fail
               ELSE [n |-> 1,
                     idx |-> IF signed /\ CharAt(name, i0) = "-"
                             THEN -mag.value ELSE mag.value]

RECURSIVE SplitPath(_, _, _)
(* The elements of a path between its separators, empty ones included. *)
SplitPath(s, i, cur) ==
    IF i > Len(s) THEN <<cur>>
    ELSE IF CharAt(s, i) = "/" THEN <<cur>> \o SplitPath(s, i + 1, "")
         ELSE SplitPath(s, i + 1, cur \o CharAt(s, i))

(* filepath.Join: empty arguments are ignored, the rest joined by the     *)
(* separator and cleaned; with no argument left the result is empty.      *)
(* filepath.Clean drops empty and "." elements; ".." removes the element  *)
(* before it, or stays when there is none to remove and the path is not   *)
(* rooted.                                                                *)
Join(elems) ==
    LET RECURSIVE JoinWith(_, _)
        JoinWith(es, i) ==
            IF i > Len(es) THEN ""
            ELSE IF i = Len(es) THEN es[i]
                 ELSE es[i] \o "/" \o JoinWith(es, i + 1)
        RECURSIVE CleanElems(_, _, _, _)
        CleanElems(es, i, out, rooted) ==
            IF i > Len(es) THEN out
            ELSE LET e == es[i]
                 IN IF e = "" \/ e = "." THEN CleanElems(es, i + 1, out, rooted)
                    ELSE IF e = ".."
                    THEN IF Len(out) > 0 /\ out[Len(out)] # ".."
                         THEN CleanElems(es, i + 1, SubSeq(out, 1, Len(out) - 1), rooted)
                         ELSE IF rooted THEN CleanElems(es, i + 1, out, rooted)
                              ELSE CleanElems(es, i + 1, Append(out, e), rooted)
                    ELSE CleanElems(es, i + 1, Append(out, e), rooted)
        Clean(path) ==
            IF path = "" THEN "."
            ELSE LET rooted == CharAt(path, 1) = "/"
                     out == CleanElems(SplitPath(path, 1, ""), 1, <<>>, rooted)
                 IN IF rooted THEN "/" \o JoinWith(out, 1)
                    ELSE IF Len(out) = 0 THEN "." ELSE JoinWith(out, 1)
        nonEmpty == SelectSeq(elems, LAMBDA e : e # "")
    IN IF Len(nonEmpty) = 0 THEN "" ELSE Clean(JoinWith(nonEmpty, 1))

(* hex.EncodeToString(sha256.Sum256(name)) for the names considered. *)
Sha256Hex ==
       "a"     :> "ca978112ca1bbdcafac231b39a23dc4da786eff8147c4e72b9807785afee48bb"
    @@ "a.tmp" :> "c5e3d1168670c19e130f2941a25eb0a0ddd38b44edfb83dfada0b77029d3e736"
    @@ "b"     :> "3e23e8160039594a33894f6564e1b1348bbd7a0088d42c4acb73eeaed59c009d"

(* getDateFolder for the date now: YYYY/MM/DD. *)
getDateFolder(now) ==
    Join(<<SprintfPadded(now.Year, 4), SprintfPadded(now.Month, 2),
           SprintfPadded(now.Day, 2)>>)

(* A read of the map folderCounts: a missing key reads as zero. *)
CountOf(counts, folder) == IF folder \in DOMAIN counts THEN counts[folder] ELSE 0

(* trackFile: folderCounts[folder]++. *)
trackFile(counts, folder) ==
    [f \in DOMAIN counts \cup {folder} |-> IF f = folder THEN CountOf(counts, f) + 1
                                           ELSE counts[f]]

(* getSequentialFolder that moves on only once the count exceeds the      *)
(* capacity.                                                              *)
getSequentialFolderOffByOne(o, maxFiles) ==
    IF o.currentFolder = "" \/ CountOf(o.folderCounts, o.currentFolder) > maxFiles
    THEN [o EXCEPT !.currentFolder = SequentialFolderName(o.folderIndex),
                   !.folderIndex = o.folderIndex + 1]
    ELSE o

(* getSequentialFolder on the organizer fields o: the folder it returns   *)
(* and the fields it leaves.                                              *)
getSequentialFolder(o, maxFiles) ==
    IF o.currentFolder = "" \/ CountOf(o.folderCounts, o.currentFolder) >= maxFiles
    THEN [o EXCEPT !.currentFolder = SequentialFolderName(o.folderIndex),
                   !.folderIndex = o.folderIndex + 1]
    ELSE o

(* loadSequentialState over the tree found under the base path: the loop *)
(* over the entries directly under it, in the order os.ReadDir gives them *)
(* (sorted by name).                                                      *)
loadSequentialState(o0, dirTree, maxFiles) ==
    LET entries == SelectSeq(dirTree, LAMBDA e : Len(SplitPath(e.name, 1, "")) = 1)
        RECURSIVE loop(_, _, _)
        loop(o, i, maxIndex) ==
            IF i > Len(entries)
            THEN IF maxIndex >= 0 /\ o.currentFolder = ""
                 THEN [o EXCEPT !.folderIndex = maxIndex + 1]
                 ELSE o
            ELSE LET entry == entries[i]
                     scan == SscanfFolder(entry.name)
                 IN IF ~entry.isDir \/ scan.n # 1
                    THEN loop(o, i + 1, maxIndex)
                    ELSE LET counted ==
                                 [o EXCEPT !.folderCounts =
                                    [f \in DOMAIN o.folderCounts \cup {entry.name} |->
                                        IF f = entry.name THEN entry.files
                                        ELSE o.folderCounts[f]]]
                             next == IF entry.files < maxFiles
                                     THEN [counted EXCEPT !.currentFolder = entry.name,
                                                          !.folderIndex = scan.idx]
                                     ELSE counted
                         IN loop(next, i + 1,
                                 IF scan.idx > maxIndex THEN scan.idx ELSE maxIndex)
    IN loop(o0, 1, -1)

(* loadPartitionedState: every directory below the base path, at any      *)
(* depth, with the number of files directly in it.                        *)
loadPartitionedState(o, dirTree) ==
    LET dirs == {i \in 1..Len(dirTree) : dirTree[i].isDir}
        names == {dirTree[i].name : i \in dirs}
    IN [o EXCEPT !.folderCounts =
            [f \in DOMAIN o.folderCounts \cup names |->
                IF f \in names
                THEN dirTree[CHOOSE i \in dirs : dirTree[i].name = f].files
                ELSE o.folderCounts[f]]]

(* GetStats. *)
GetStats(c, o) ==
    LET RECURSIVE SumCounts(_)
        SumCounts(folders) ==
            IF folders = {} THEN 0
            ELSE LET f == CHOOSE x \in folders : TRUE
                 IN o.folderCounts[f] + SumCounts(folders \ {f})
    IN [enabled |-> c.Enabled,
        strategy |-> c.Strategy,
        total_folders |-> Cardinality(DOMAIN o.folderCounts),
        total_files |-> SumCounts(DOMAIN o.folderCounts),
        current_folder |-> IF c.Strategy = "sequential" THEN o.currentFolder ELSE Nil,
        next_folder_index |-> IF c.Strategy = "sequential" THEN o.folderIndex ELSE -1]

NoCheckpoint == [absent |-> TRUE]

(* The containers considered: one object, two whose paths collide, two    *)
(* that do not, and a listing longer than one page.                       *)
Containers == {{"a"}, {"a", "a.tmp"}, {"a", "b"}, Keys}

(* config.Default() for the sync flags, and each flag changed in turn. *)
Default == [SkipExisting |-> TRUE, ForceResync |-> FALSE, VerifyChecksums |-> TRUE]
Configs ==
    {Default,
     [Default EXCEPT !.SkipExisting = FALSE],
     [Default EXCEPT !.ForceResync = TRUE],
     [Default EXCEPT !.VerifyChecksums = FALSE]}

(* ------------------------------- state --------------------------------- *)
VARIABLES
    cfg,          \* config.SyncConfig: SkipExisting, ForceResync, VerifyChecksums
    remote,       \* names of the blobs the container holds
    blobState,    \* table blob_state: name -> record or NoRecord, and the names by row id
    syncRuns,     \* table sync_runs, indexed by id
    errorLog,     \* table error_log
    checkpoint,   \* table sync_checkpoint (the single row, or NoCheckpoint)
    fs,           \* the local volume: path -> file or NoFile
    phase,        \* where Start() stands: idle, discovery, download, spawn, wait, complete
    runID,        \* Syncer.runID
    cancelled,    \* Syncer.ctx is done
    stop,         \* Stop(): none, waiting (cancelled, at wg.Wait), blocked (in wg.Wait), released, returned, panic
    wg,           \* Syncer.wg counter
    queue,        \* blobQueue: the records not yet received
    spawned,      \* loop variable i of download()
    pc,           \* per worker: off, select, attempt, fetch, exited
    item,         \* per worker: the *BlobState being processed, or NoRecord
    attempt,      \* per worker: loop variable of processBlob
    lastErr,      \* per worker: lastErr of processBlob
    faults,       \* failures the environment has injected so far
    result,       \* what the last Start() returned: none, ok, err
    continuationToken, \* discovery's continuationToken
    listCalls,    \* ListBlobs calls of the current discovery (saturating)
    discovered,   \* names upserted by discovery in the current pass
    fetched,      \* DownloadBlob has been called in the current pass
    snapshot,     \* names in the pending snapshot download() took in the current pass
    processed,    \* names whose processBlob returned in the current pass
    dirty,        \* names with an attempt that ended otherwise than by a checksum mismatch
    everDownloaded, \* names whose record ever had status downloaded
    owed,         \* names pending and never downloaded when the process was replaced
    calls,        \* the records given to UpsertBlobState by a client of the store, in order
    watch,        \* cfg.Watch.Enabled
    loop,         \* where runSync stands: start (at or in syncer.Start()), sleep, return err, return nil, panic
    orgCfg,       \* Organizer.cfg: config.FolderOrganizationConfig
    tree,         \* the directories and files under Organizer.basePath, sorted by name
    work,         \* the arguments of the GetTargetPath calls to come, in order
    folderCounts, \* Organizer.folderCounts
    currentFolder, \* Organizer.currentFolder
    folderIndex,  \* Organizer.folderIndex
    mu,           \* Organizer.mu: the caller holding the lock, or NoCaller
    caller,       \* per caller of GetTargetPath: position, arguments, local folder
    lastCaller,   \* the caller whose GetTargetPath call returned last, or NoCaller
    loaded,       \* LoadState has run on the current organizer
    placed,       \* the folder of each GetTargetPath call of the current organizer, in order of return
    targets,      \* (name, path, returned path) of the calls of the current organizer
    past,         \* the same for the organizers created before it
    gen,          \* the number of organizers created so far
    errIn,        \* the error given to classifyError and isRetryable
    errKind,      \* what classifyError returned for it, or Nil before the call
    errRetry      \* what isRetryable returned for it

syncerVars == <<cfg, remote, blobState, syncRuns, errorLog, checkpoint, fs, phase,
                runID, cancelled, stop, wg, queue, spawned, pc, item, attempt,
                lastErr, faults, result, continuationToken, listCalls, discovered,
                fetched, snapshot, processed, dirty, everDownloaded, owed, calls,
                watch, loop>>

orgVars == <<orgCfg, tree, work, folderCounts, currentFolder, folderIndex, mu, caller,
             lastCaller,
             loaded, placed, targets, past, gen>>

classifyVars == <<errIn, errKind, errRetry>>

vars == <<syncerVars, orgVars, classifyVars>>

envVars == <<cfg, remote, watch>>
storeHist == <<calls>>
dbVars == <<blobState, syncRuns, errorLog, checkpoint>>
workerVars == <<pc, item, attempt, lastErr>>
passHist == <<discovered, fetched, snapshot, processed, dirty>>

(* config.Default() for the folder organization, and the same enabled. *)
OrgDefault ==
    [Enabled |-> FALSE, MaxFilesPerFolder |-> 10000, Strategy |-> "sequential",
     PartitionDepth |-> 2]
OrgEnabled == [OrgDefault EXCEPT !.Enabled = TRUE]

NoCaller == 0
CallerIds == 1..MaxCallers
NoArgs == [blobName |-> "", blobPath |-> ""]

(* organizer.New: empty counts, no current folder, index 0; no caller is  *)
(* inside GetTargetPath.                                                  *)
NewOrganizer ==
    /\ folderCounts = <<>>
    /\ currentFolder = ""
    /\ folderIndex = 0
    /\ mu = NoCaller
    /\ caller = [c \in CallerIds |-> [pc |-> "idle", args |-> NoArgs, folder |-> ""]]
    /\ lastCaller = NoCaller
    /\ loaded = FALSE
    /\ placed = <<>>
    /\ targets = {}
    /\ past = {}
    /\ gen = 1

(* No error is being classified. *)
NotClassifying ==
    /\ errIn = NilError
    /\ errKind = Nil
    /\ errRetry = FALSE

(* sync.New and the stores it is given, before the first Start(). *)
SyncerInit ==
    /\ cfg \in Configs
    /\ remote \in Containers
    /\ blobState = EmptyStore
    /\ syncRuns = <<>>
    /\ errorLog = {}
    /\ checkpoint = NoCheckpoint
    /\ fs = [p \in Paths |-> NoFile]
    /\ phase = "idle"
    /\ runID = 0
    /\ cancelled = FALSE
    /\ stop = "none"
    /\ wg = 0
    /\ queue = <<>>
    /\ spawned = 0
    /\ pc = [w \in WorkerIds |-> "off"]
    /\ item = [w \in WorkerIds |-> NoRecord]
    /\ attempt = [w \in WorkerIds |-> 0]
    /\ lastErr = [w \in WorkerIds |-> Nil]
    /\ faults = 0
    /\ result = "none"
    /\ continuationToken = Nil
    /\ listCalls = 0
    /\ discovered = {}
    /\ fetched = FALSE
    /\ snapshot = {}
    /\ processed = {}
    /\ dirty = {}
    /\ everDownloaded = {}
    /\ owed = {}
    /\ calls = <<>>
    /\ watch \in BOOLEAN
    /\ loop = "start"

(* The command as it is run: the sync flags as above, and with the        *)
(* default flags folder organization switched on or off.                  *)
Init ==
    /\ SyncerInit
    /\ orgCfg \in IF cfg = Default THEN {OrgDefault, OrgEnabled} ELSE {OrgDefault}
    /\ tree = <<>>
    /\ work = <<>>
    /\ NewOrganizer
    /\ NotClassifying

(* ------------------------------ runSync ------------------------------- *)
(* runSync's loop that treats a failed pass in watch mode as fatal.      *)
afterStartFatal(failed) ==
    IF failed THEN "return err"
    ELSE IF ~watch THEN "return nil"
    ELSE "sleep"

(* runSync's loop once syncer.Start() has returned: the error is         *)
(* returned unless watch mode is on, a pass without watch mode ends the  *)
(* loop, and in watch mode the loop goes to sleep.                       *)
afterStart(failed) ==
    IF failed /\ ~watch THEN "return err"
    ELSE IF ~watch THEN "return nil"
    ELSE "sleep"

(* time.Sleep(cfg.Watch.Interval) returns and the loop calls Start.      *)
Sleep ==
    /\ loop = "sleep"
    /\ loop' = "start"
    /\ UNCHANGED <<envVars, storeHist, orgVars, classifyVars, dbVars, fs, phase, runID,
                   cancelled, stop, wg, queue, spawned, workerVars, faults, result,
                   continuationToken, listCalls, passHist, everDownloaded, owed>>

(* ------------------------------- Start() ------------------------------- *)
(* db.CreateSyncRun and the entry into discovery. *)
Start ==
    /\ loop = "start"
    /\ phase = "idle"
    /\ Len(syncRuns) < MaxPasses
    /\ syncRuns' = Append(syncRuns, [Status |-> SyncStatusRunning,
                                     CompletedAt |-> Nil,
                                     TotalFiles |-> 0, DownloadedFiles |-> 0,
                                     FailedFiles |-> 0, TotalBytes |-> 0,
                                     ErrorMessage |-> Nil])
    /\ runID' = Len(syncRuns) + 1
    /\ phase' = "discovery"
    /\ result' = "none"
    /\ continuationToken' = Nil
    /\ listCalls' = 0
    /\ discovered' = {}
    /\ fetched' = FALSE
    /\ snapshot' = {}
    /\ processed' = {}
    /\ dirty' = {}
    /\ UNCHANGED <<envVars, storeHist, orgVars, classifyVars, blobState, errorLog, checkpoint, fs, cancelled, stop,
                   wg, queue, spawned, workerVars, faults, everDownloaded, owed, loop>>

(* markRunFailed that sets the status alone. *)
markRunFailedStatusOnly(runs, id, e) ==
    [runs EXCEPT ![id] = [@ EXCEPT !.Status = SyncStatusFailed]]

(* markRunFailed whose update is not restricted to the current run's id. *)
markRunFailedAll(runs, id, e) ==
    [i \in DOMAIN runs |->
        [runs[i] EXCEPT !.Status = SyncStatusFailed,
                        !.CompletedAt = "now", !.ErrorMessage = e]]

(* markRunFailed followed by Start's error return. *)
markRunFailed(runs, id, e) ==
    [runs EXCEPT ![id] = [@ EXCEPT !.Status = SyncStatusFailed,
                                   !.CompletedAt = "now", !.ErrorMessage = e]]

(* discoveryStatus with the skip-existing policy left out. *)
discoveryStatusNoSkip(existing, blob) ==
    BlobStatusPending

(* discoveryStatus that lets skip-existing win over force-resync. *)
discoveryStatusIgnoreForce(existing, blob) ==
    IF existing = NoRecord THEN BlobStatusPending
    ELSE IF /\ existing.ETag = blob.ETag
            /\ FormatTime(existing.LastModified) = blob.LastModified
            /\ cfg.SkipExisting
         THEN BlobStatusSkipped
         ELSE BlobStatusPending

(* discoveryStatus that leaves the status of an unchanged blob as the      *)
(* record has it.                                                         *)
discoveryStatusKeep(existing, blob) ==
    IF existing = NoRecord THEN BlobStatusPending
    ELSE IF /\ ~cfg.ForceResync
            /\ existing.ETag = blob.ETag
            /\ FormatTime(existing.LastModified) = blob.LastModified
            /\ cfg.SkipExisting
         THEN existing.Status
         ELSE BlobStatusPending

(* The status discovery gives a listed blob, from the record it finds. *)
discoveryStatus(existing, blob) ==
    IF existing = NoRecord THEN BlobStatusPending
    ELSE IF ~cfg.ForceResync
         THEN IF /\ existing.ETag = blob.ETag
                 /\ FormatTime(existing.LastModified) = blob.LastModified
              THEN IF cfg.SkipExisting THEN BlobStatusSkipped
                   ELSE BlobStatusPending
              ELSE BlobStatusPending
         ELSE BlobStatusPending

(* time.Now() in discovery, at the granularity of passes: the number of   *)
(* the run.                                                               *)
Now == runID

(* The record discovery upserts for a listed blob. *)
discoveredState(existing, blob) ==
    [BlobName |-> blob.Name,
     BlobPath |-> blob.Path,
     LocalPath |-> LocalPathOf(blob.Path),
     SizeBytes |-> blob.Size,
     ETag |-> blob.ETag,
     LastModified |-> ParseTime(blob.LastModified),
     Status |-> discoveryStatus(existing, blob),
     ContentMD5 |-> IF Len(blob.ContentMD5) > 0 THEN Hex(blob.ContentMD5) ELSE NoMD5,
     FirstSeenAt |-> Now,
     LastSyncedAt |-> Nil,
     SyncRunID |-> NoRunID,
     ErrorMessage |-> Nil]

RECURSIVE discoverPage(_, _, _)
(* The inner loop of discovery over one page: look up, classify, upsert. *)
discoverPage(table, blobs, i) ==
    IF i > Len(blobs) THEN table
    ELSE discoverPage(
            UpsertBlobState(table,
                discoveredState(GetBlobState(table, blobs[i].Name), blobs[i])),
            blobs, i + 1)

(* One iteration of discovery's page loop, the listing call succeeding. *)
DiscoveryPage ==
    /\ phase = "discovery"
    /\ ~cancelled
    /\ LET page == ListBlobs(remote, BatchSize)
       IN /\ blobState' = discoverPage(blobState, page.blobs, 1)
          /\ discovered' = discovered \cup {page.blobs[i].Name : i \in 1..Len(page.blobs)}
          /\ continuationToken' = page.token
          /\ IF page.token = Nil
             THEN /\ checkpoint' = [LastContinuationToken |-> page.token]
                  /\ phase' = "download"
             ELSE /\ UNCHANGED checkpoint
                  /\ phase' = "discovery"
    /\ listCalls' = Min(listCalls + 1, MaxListCalls)
    /\ UNCHANGED <<envVars, storeHist, orgVars, classifyVars, syncRuns, errorLog, fs, runID, cancelled, stop, wg,
                   queue, spawned, workerVars, faults, result, loop, fetched,
                   snapshot, processed, dirty, everDownloaded, owed>>

(* The listing call fails: the context is done, or the remote store is    *)
(* unreachable.  discovery returns the error and Start marks the run.     *)
DiscoveryFails ==
    /\ phase = "discovery"
    /\ \/ cancelled /\ UNCHANGED faults
       \/ ~cancelled /\ faults < MaxFaults /\ faults' = faults + 1
    /\ syncRuns' = markRunFailed(syncRuns, runID, "failed to list blobs")
    /\ phase' = "idle"
    /\ result' = "err"
    /\ loop' = afterStart(TRUE)
    /\ UNCHANGED <<envVars, storeHist, orgVars, classifyVars, blobState, errorLog, checkpoint, fs, runID, cancelled,
                   stop, wg, queue, spawned, workerVars, continuationToken,
                   listCalls, passHist, everDownloaded, owed>>

(* download(): the snapshot of pending records and the closed queue. *)
DownloadStart ==
    /\ phase = "download"
    /\ LET pending == GetPendingBlobs(blobState)
       IN IF Len(pending) = 0
          THEN /\ phase' = "complete"
               /\ UNCHANGED <<queue, spawned>>
          ELSE /\ queue' = pending
               /\ spawned' = 0
               /\ phase' = "spawn"
    /\ snapshot' = {GetPendingBlobs(blobState)[i].BlobName :
                        i \in 1..Len(GetPendingBlobs(blobState))}
    /\ UNCHANGED <<envVars, storeHist, orgVars, classifyVars, dbVars, fs, runID, cancelled, stop, wg, workerVars,
                   faults, result, loop, continuationToken, listCalls, discovered,
                   fetched, processed, dirty, everDownloaded, owed>>

(* download(): s.wg.Add(1); go s.worker(i, blobQueue).  Stop's Wait runs  *)
(* in another goroutine: when the Done that brought the counter to zero  *)
(* has released it and it has not yet read the state again, the Add is a *)
(* reuse of the WaitGroup.  It either goes through (and the released     *)
(* Wait panics if it reads the state before the counter is back at zero, *)
(* StopPanic), or it lands inside that Done and panics itself; the       *)
(* panic is not recovered and ends the process.                          *)
SpawnWorker ==
    /\ phase = "spawn"
    /\ \/ /\ wg' = wg + 1
          /\ pc' = [pc EXCEPT ![spawned] = "select"]
          /\ spawned' = spawned + 1
          /\ phase' = IF spawned + 1 = Workers THEN "wait" ELSE "spawn"
          /\ UNCHANGED <<stop, loop>>
       \/ /\ stop = "released"
          /\ phase' = "panic"
          /\ loop' = "panic"
          /\ stop' = "panic"
          /\ pc' = [w \in WorkerIds |-> "off"]
          /\ UNCHANGED <<wg, spawned>>
    /\ UNCHANGED <<envVars, storeHist, orgVars, classifyVars, dbVars, fs, runID, cancelled, queue, item,
                   attempt, lastErr, faults, result, continuationToken,
                   listCalls, passHist, everDownloaded, owed>>

(* download() that does not wait for its workers. *)
WaitWorkersNoWait ==
    /\ phase = "wait"
    /\ phase' = "complete"
    /\ UNCHANGED <<envVars, storeHist, orgVars, classifyVars, dbVars, fs, runID, cancelled, stop, wg, queue,
                   spawned, workerVars, faults, result, loop, continuationToken,
                   listCalls, passHist, everDownloaded, owed>>

(* download(): s.wg.Wait() returns. *)
WaitWorkers ==
    /\ phase = "wait"
    /\ wg = 0
    /\ phase' = "complete"
    /\ UNCHANGED <<envVars, storeHist, orgVars, classifyVars, dbVars, fs, runID, cancelled, stop, wg, queue,
                   spawned, workerVars, faults, result, loop, continuationToken,
                   listCalls, passHist, everDownloaded, owed>>

(* complete(): read the run, stamp it, write it back; Start returns nil. *)
Complete ==
    /\ phase = "complete"
    /\ syncRuns' = [syncRuns EXCEPT ![runID] =
                        [@ EXCEPT !.Status = SyncStatusCompleted, !.CompletedAt = "now"]]
    /\ phase' = "idle"
    /\ result' = "ok"
    /\ loop' = afterStart(FALSE)
    /\ UNCHANGED <<envVars, storeHist, orgVars, classifyVars, blobState, errorLog, checkpoint, fs, runID, cancelled,
                   stop, wg, queue, spawned, workerVars, faults,
                   continuationToken, listCalls, passHist, everDownloaded, owed>>

(* ------------------------------- workers ------------------------------- *)
(* A receive that leaves the record in the queue for the next receiver.   *)
WorkerTakeNoDequeue(w) ==
    /\ pc[w] = "select"
    /\ Len(queue) > 0
    /\ item' = [item EXCEPT ![w] = Head(queue)]
    /\ queue' = queue
    /\ attempt' = [attempt EXCEPT ![w] = 0]
    /\ lastErr' = [lastErr EXCEPT ![w] = Nil]
    /\ pc' = [pc EXCEPT ![w] = "attempt"]
    /\ UNCHANGED <<envVars, storeHist, orgVars, classifyVars, dbVars, fs, phase, runID, cancelled, stop, wg,
                   spawned, faults, result, loop, continuationToken, listCalls,
                   passHist, everDownloaded, owed>>

(* worker: the select receives a record from the queue.  When the context *)
(* is done as well, both cases are ready and select takes either.         *)
WorkerTake(w) ==
    /\ pc[w] = "select"
    /\ Len(queue) > 0
    /\ item' = [item EXCEPT ![w] = Head(queue)]
    /\ queue' = Tail(queue)
    /\ attempt' = [attempt EXCEPT ![w] = 0]
    /\ lastErr' = [lastErr EXCEPT ![w] = Nil]
    /\ pc' = [pc EXCEPT ![w] = "attempt"]
    /\ UNCHANGED <<envVars, storeHist, orgVars, classifyVars, dbVars, fs, phase, runID, cancelled, stop, wg,
                   spawned, faults, result, loop, continuationToken, listCalls,
                   passHist, everDownloaded, owed>>

(* worker: the context is done, or the closed queue is empty; wg.Done().  *)
(* The Done that brings the counter to zero releases a blocked Wait.      *)
WorkerExit(w) ==
    /\ pc[w] = "select"
    /\ cancelled \/ Len(queue) = 0
    /\ pc' = [pc EXCEPT ![w] = "exited"]
    /\ wg' = wg - 1
    /\ stop' = IF stop = "blocked" /\ wg - 1 = 0 THEN "released" ELSE stop
    /\ UNCHANGED <<envVars, storeHist, orgVars, classifyVars, dbVars, fs, phase, runID, cancelled, queue,
                   spawned, item, attempt, lastErr, faults, result, loop,
                   continuationToken, listCalls, passHist, everDownloaded, owed>>

(* processBlob after its loop with the upsert left out: the record keeps   *)
(* the status it had.                                                      *)
FailItemNoUpsert(w, e) ==
    /\ blobState' = blobState
    /\ pc' = [pc EXCEPT ![w] = "select"]
    /\ item' = [item EXCEPT ![w] = NoRecord]
    /\ attempt' = [attempt EXCEPT ![w] = 0]
    /\ lastErr' = [lastErr EXCEPT ![w] = Nil]
    /\ processed' = processed \cup {item[w].BlobName}

(* processBlob after its loop: the record becomes failed with the last    *)
(* error's message, and the worker returns to its select.                 *)
FailItem(w, e) ==
    /\ blobState' = UpsertBlobState(blobState,
                        [item[w] EXCEPT !.Status = BlobStatusFailed,
                                        !.ErrorMessage = e])
    /\ pc' = [pc EXCEPT ![w] = "select"]
    /\ item' = [item EXCEPT ![w] = NoRecord]
    /\ attempt' = [attempt EXCEPT ![w] = 0]
    /\ lastErr' = [lastErr EXCEPT ![w] = Nil]
    /\ processed' = processed \cup {item[w].BlobName}

(* processBlob when downloadBlob returned error e: record it, then retry  *)
(* or give up.                                                            *)
AttemptFailed(w, e) ==
    /\ errorLog' = errorLog \cup
            {[SyncRunID |-> runID, BlobName |-> item[w].BlobName,
              ErrorType |-> ErrClass[e], ErrorMessage |-> e,
              RetryCount |-> attempt[w]]}
    /\ dirty' = IF e = "E_CHECKSUM" THEN dirty ELSE dirty \cup {item[w].BlobName}
    /\ IF ErrRetryable[e] /\ attempt[w] + 1 < maxRetries
       THEN /\ pc' = [pc EXCEPT ![w] = "attempt"]
            /\ attempt' = [attempt EXCEPT ![w] = attempt[w] + 1]
            /\ lastErr' = [lastErr EXCEPT ![w] = e]
            /\ UNCHANGED <<blobState, item, processed>>
       ELSE FailItem(w, e)

(* One loop iteration of processBlob up to the remote call: the backoff   *)
(* sleep, the disk pre-flight check, MkdirAll and os.Create of the        *)
(* temporary file.  With the context already done the remote call fails   *)
(* at once and the temporary file is removed again.                       *)
BeginAttempt(w) ==
    /\ pc[w] = "attempt"
    /\ \E u \in UsageReadings, io \in {"ok", "mkdir", "create"} :
         LET tmpPath == TmpPathOf(item[w].LocalPath)
             name == item[w].BlobName
         IN IF ~u.err /\ u.usage >= DiskStopPercent
            THEN /\ io = "ok"
                 /\ faults < MaxFaults
                 /\ faults' = faults + 1
                 /\ FailItem(w, "E_STOP")
                 /\ dirty' = dirty \cup {name}
                 /\ UNCHANGED <<errorLog, fs, fetched>>
            ELSE IF io # "ok"
            THEN /\ faults < MaxFaults
                 /\ faults' = faults + 1
                 /\ AttemptFailed(w, IF io = "mkdir" THEN "E_MKDIR" ELSE "E_CREATE")
                 /\ UNCHANGED <<fs, fetched>>
            ELSE IF cancelled
            THEN /\ fs' = Remove(fs, tmpPath)
                 /\ fetched' = TRUE
                 /\ AttemptFailed(w, "E_CANCELED")
                 /\ UNCHANGED faults
            ELSE /\ fs' = Create(fs, tmpPath, name, w)
                 /\ fetched' = TRUE
                 /\ pc' = [pc EXCEPT ![w] = "fetch"]
                 /\ UNCHANGED <<blobState, errorLog, item, attempt, lastErr,
                                faults, processed, dirty>>
    /\ UNCHANGED <<envVars, storeHist, orgVars, classifyVars, syncRuns, checkpoint, phase, runID, cancelled, stop,
                   wg, queue, spawned, result, loop, continuationToken, listCalls,
                   discovered, snapshot, everDownloaded, owed>>

(* downloadBlob from the return of Client.DownloadBlob on: the stream     *)
(* failed (temporary file removed), or it was copied in full and is then  *)
(* verified, closed and renamed over the final path; processBlob then     *)
(* records the outcome.                                                   *)
FinishFetch(w) ==
    /\ pc[w] = "fetch"
    /\ LET tmpPath == TmpPathOf(item[w].LocalPath)
           name == item[w].BlobName
           verify == cfg.VerifyChecksums /\ item[w].ContentMD5 # NoMD5
           computed == Hex(Digest(name))
       IN \/ \E e \in {"E_NETWORK", "E_AUTH", "E_CANCELED"} :
               /\ IF e = "E_CANCELED"
                  THEN cancelled /\ UNCHANGED faults
                  ELSE faults < MaxFaults /\ faults' = faults + 1
               /\ fs' = Remove(fs, tmpPath)
               /\ AttemptFailed(w, e)
               /\ UNCHANGED everDownloaded
          \/ /\ verify /\ computed # item[w].ContentMD5
             /\ fs' = Remove(WriteAll(fs, w), tmpPath)
             /\ AttemptFailed(w, "E_CHECKSUM")
             /\ UNCHANGED <<faults, everDownloaded>>
          \/ /\ ~(verify /\ computed # item[w].ContentMD5)
             /\ \/ /\ IF fs[tmpPath] = NoFile THEN UNCHANGED faults
                      ELSE faults < MaxFaults /\ faults' = faults + 1
                   /\ fs' = Remove(Close(WriteAll(fs, w), w), tmpPath)
                   /\ AttemptFailed(w, "E_RENAME")
                   /\ UNCHANGED everDownloaded
                \/ /\ fs[tmpPath] # NoFile
                   /\ fs' = Rename(Close(WriteAll(fs, w), w), tmpPath, item[w].LocalPath)
                   /\ blobState' = UpsertBlobState(blobState,
                            [item[w] EXCEPT !.Status = BlobStatusDownloaded,
                                            !.LastSyncedAt = "now",
                                            !.SyncRunID = runID])
                   /\ everDownloaded' = everDownloaded \cup {name}
                   /\ processed' = processed \cup {name}
                   /\ dirty' = dirty \cup {name}
                   /\ pc' = [pc EXCEPT ![w] = "select"]
                   /\ item' = [item EXCEPT ![w] = NoRecord]
                   /\ attempt' = [attempt EXCEPT ![w] = 0]
                   /\ lastErr' = [lastErr EXCEPT ![w] = Nil]
                   /\ UNCHANGED <<errorLog, faults>>
    /\ UNCHANGED <<envVars, storeHist, orgVars, classifyVars, syncRuns, checkpoint, phase, runID, cancelled, stop,
                   wg, queue, spawned, result, loop, continuationToken, listCalls,
                   discovered, fetched, snapshot, owed>>

(* ------------------------------- Stop() -------------------------------- *)
(* The signal goroutine of a running command calls Stop: s.cancel(),     *)
(* then the call of s.wg.Wait().                                         *)
StopCall ==
    /\ loop \in {"start", "sleep"}
    /\ stop = "none"
    /\ cancelled' = TRUE
    /\ stop' = "waiting"
    /\ UNCHANGED <<envVars, storeHist, orgVars, classifyVars, dbVars, fs, phase, runID, wg, queue, spawned,
                   workerVars, faults, result, loop, continuationToken, listCalls,
                   passHist, everDownloaded, owed>>

(* Stop: s.wg.Wait() finds the counter above zero and blocks. *)
StopWait ==
    /\ stop = "waiting"
    /\ wg > 0
    /\ stop' = "blocked"
    /\ UNCHANGED <<envVars, storeHist, orgVars, classifyVars, dbVars, fs, phase, runID, cancelled, wg, queue,
                   spawned, workerVars, faults, result, loop, continuationToken,
                   listCalls, passHist, everDownloaded, owed>>

(* Stop: s.wg.Wait() finds the counter at zero, at its call or when it   *)
(* runs again after its release, and Stop returns.                       *)
StopReturn ==
    /\ stop \in {"waiting", "released"}
    /\ wg = 0
    /\ stop' = "returned"
    /\ UNCHANGED <<envVars, storeHist, orgVars, classifyVars, dbVars, fs, phase, runID, cancelled, wg, queue,
                   spawned, workerVars, faults, result, loop, continuationToken,
                   listCalls, passHist, everDownloaded, owed>>

(* Stop: the released s.wg.Wait() runs again and finds the counter above *)
(* zero: download has called Add since ("WaitGroup is reused before      *)
(* previous Wait has returned").  The panic ends the process.            *)
StopPanic ==
    /\ stop = "released"
    /\ wg > 0
    /\ stop' = "panic"
    /\ phase' = "panic"
    /\ loop' = "panic"
    /\ pc' = [w \in WorkerIds |-> "off"]
    /\ UNCHANGED <<envVars, storeHist, orgVars, classifyVars, dbVars, fs, runID, cancelled, wg, queue,
                   spawned, item, attempt, lastErr, faults, result, continuationToken,
                   listCalls, passHist, everDownloaded, owed>>

(* --------------------------- a new process ----------------------------- *)
(* The process ends (it returned, panicked, or was killed at this point)  *)
(* and the                                                                *)
(* command is run again: sync.New on the same store and directory.        *)
NewProcess ==
    /\ Len(syncRuns) >= 1
    /\ Len(syncRuns) < MaxPasses
    /\ faults < MaxFaults
    /\ faults' = faults + 1
    /\ loop' = "start"
    /\ phase' = "idle"
    /\ runID' = 0
    /\ cancelled' = FALSE
    /\ stop' = "none"
    /\ wg' = 0
    /\ queue' = <<>>
    /\ spawned' = 0
    /\ pc' = [w \in WorkerIds |-> "off"]
    /\ item' = [w \in WorkerIds |-> NoRecord]
    /\ attempt' = [w \in WorkerIds |-> 0]
    /\ lastErr' = [w \in WorkerIds |-> Nil]
    /\ result' = "none"
    /\ continuationToken' = Nil
    /\ fs' = [p \in Paths |-> IF fs[p] = NoFile THEN NoFile
                              ELSE [fs[p] EXCEPT !.ino = NoIno]]
    /\ owed' = {k \in Keys : /\ blobState[k] # NoRecord
                             /\ blobState[k].Status = BlobStatusPending
                             /\ k \notin everDownloaded}
    /\ listCalls' = 0
    /\ discovered' = {}
    /\ fetched' = FALSE
    /\ snapshot' = {}
    /\ processed' = {}
    /\ dirty' = {}
    /\ UNCHANGED <<envVars, storeHist, orgVars, classifyVars, dbVars, everDownloaded>>

Next ==
    \/ Start
    \/ DiscoveryPage
    \/ DiscoveryFails
    \/ DownloadStart
    \/ SpawnWorker
    \/ WaitWorkers
    \/ Complete
    \/ \E w \in WorkerIds : WorkerTake(w)
    \/ \E w \in WorkerIds : WorkerExit(w)
    \/ \E w \in WorkerIds : BeginAttempt(w)
    \/ \E w \in WorkerIds : FinishFetch(w)
    \/ StopCall
    \/ StopWait
    \/ StopReturn
    \/ StopPanic
    \/ Sleep
    \/ NewProcess

Spec == Init /\ [][Next]_vars

(* The pass under the scheduling the runtime gives it: Start's own steps  *)
(* and every started goroutine keep running, and a sleep of the watch    *)
(* loop ends.  The call of Start, Stop, failures and the replacement of   *)
(* the process are the environment's choice.                             *)
FairSpec ==
    /\ Spec
    /\ WF_vars(DiscoveryPage)
    /\ WF_vars(DownloadStart)
    /\ WF_vars(SpawnWorker)
    /\ WF_vars(WaitWorkers)
    /\ WF_vars(Complete)
    /\ WF_vars(Sleep)
    /\ \A w \in WorkerIds :
          /\ WF_vars(WorkerTake(w))
          /\ WF_vars(WorkerExit(w))
          /\ WF_vars(BeginAttempt(w))
          /\ WF_vars(FinishFetch(w))

(* ------------------------ the state store alone ------------------------ *)
(* A client of the store (as the package's tests are) upserts records of  *)
(* its choice: two names, and for each two entity tags, two statuses and  *)
(* two first-seen times.                                                  *)
StoreRecords ==
    {[BlobName |-> k, BlobPath |-> k, LocalPath |-> LocalPathOf(k),
      SizeBytes |-> 1, ETag |-> e, LastModified |-> 100, Status |-> s,
      ContentMD5 |-> NoMD5, FirstSeenAt |-> t, LastSyncedAt |-> Nil,
      SyncRunID |-> NoRunID, ErrorMessage |-> Nil] :
        k \in {"a", "b"}, e \in {"e1", "e2"},
        s \in {BlobStatusPending, BlobStatusDownloaded}, t \in {1, 2}}

StoreInit ==
    /\ Init
    /\ cfg = Default
    /\ watch = FALSE
    /\ remote = Keys
    /\ orgCfg = OrgDefault

StoreUpsert ==
    /\ Len(calls) < MaxCalls
    /\ \E blob \in StoreRecords :
          /\ blobState' = UpsertBlobState(blobState, blob)
          /\ calls' = Append(calls, blob)
    /\ UNCHANGED <<envVars, syncRuns, errorLog, checkpoint, fs, phase, runID,
                   cancelled, stop, wg, queue, spawned, workerVars, faults,
                   result, loop, continuationToken, listCalls, passHist,
                   everDownloaded, owed, orgVars, classifyVars>>

StoreNext == StoreUpsert

StoreSpec == StoreInit /\ [][StoreNext]_vars


(* ------------------------- discovery alone ----------------------------- *)
(* Discovery over a store left by earlier passes: the record of "a" may   *)
(* be missing, or describe the current or an earlier version of the blob, *)
(* in any status; the three flags take every combination.                 *)
PriorRecords ==
    {[BlobName |-> "a", BlobPath |-> "a", LocalPath |-> LocalPathOf("a"),
      SizeBytes |-> 1, ETag |-> e, LastModified |-> t, Status |-> s,
      ContentMD5 |-> Hex(Digest("a")), FirstSeenAt |-> ZeroTime,
      LastSyncedAt |-> Nil, SyncRunID |-> NoRunID, ErrorMessage |-> Nil] :
        e \in {Objects["a"].ETag, "e0"},
        t \in {Objects["a"].LastModified, 50},
        s \in {BlobStatusPending, BlobStatusDownloaded, BlobStatusFailed,
               BlobStatusSkipped}}

DiscoveryInit ==
    /\ cfg \in [SkipExisting : BOOLEAN, ForceResync : BOOLEAN,
                VerifyChecksums : BOOLEAN]
    /\ remote \in Containers
    /\ \E prior \in PriorRecords \cup {NoRecord} :
          blobState = IF prior = NoRecord THEN EmptyStore
                      ELSE [EmptyStore EXCEPT !["a"] = prior,
                                              !["rowids"] = <<"a">>]
    /\ syncRuns = <<[Status |-> SyncStatusRunning, CompletedAt |-> Nil,
                     TotalFiles |-> 0, DownloadedFiles |-> 0,
                     FailedFiles |-> 0, TotalBytes |-> 0,
                     ErrorMessage |-> Nil]>>
    /\ errorLog = {}
    /\ checkpoint = NoCheckpoint
    /\ fs = [p \in Paths |-> NoFile]
    /\ phase = "discovery"
    /\ runID = 1
    /\ cancelled = FALSE
    /\ stop = "none"
    /\ wg = 0
    /\ queue = <<>>
    /\ spawned = 0
    /\ pc = [w \in WorkerIds |-> "off"]
    /\ item = [w \in WorkerIds |-> NoRecord]
    /\ attempt = [w \in WorkerIds |-> 0]
    /\ lastErr = [w \in WorkerIds |-> Nil]
    /\ faults = 0
    /\ result = "none"
    /\ watch = FALSE
    /\ loop = "start"
    /\ continuationToken = Nil
    /\ listCalls = 0
    /\ discovered = {}
    /\ fetched = FALSE
    /\ snapshot = {}
    /\ processed = {}
    /\ dirty = {}
    /\ everDownloaded = {}
    /\ owed = {}
    /\ calls = <<>>
    /\ orgCfg = OrgDefault
    /\ tree = <<>>
    /\ work = <<>>
    /\ NewOrganizer
    /\ NotClassifying

DiscoveryNext == DiscoveryPage

DiscoverySpec == DiscoveryInit /\ [][DiscoveryNext]_vars

(* ------------------------- the folder organizer ------------------------ *)
(* getPartitionKeyFolder whose parts start one character apart instead   *)
(* of charsPerPart apart.                                                 *)
getPartitionKeyFolderOverlap(depth, blobName) ==
    LET hashStr == Sha256Hex[blobName]
        charsPerPart == 2
        parts == [i \in 1..depth |->
                    SubSeq(hashStr, i, Min(i - 1 + charsPerPart, Len(hashStr)))]
    IN Join(parts)

(* getPartitionKeyFolder: the first depth pairs of hex digits of the      *)
(* name's digest, one directory level per pair.                           *)
getPartitionKeyFolder(depth, blobName) ==
    LET hashStr == Sha256Hex[blobName]
        charsPerPart == 2
        parts == [i \in 1..depth |->
                    SubSeq(hashStr, (i - 1) * charsPerPart + 1,
                           Min(i * charsPerPart, Len(hashStr)))]
    IN Join(parts)

(* A disabled organizer that still files the blob under the first folder. *)
disabledTargetInFolder(basePath, blobPath) ==
    Join(<<basePath, SequentialFolderName(0), blobPath>>)

(* GetTargetPath, disabled: filepath.Join(o.basePath, blobPath). *)
disabledTarget(basePath, blobPath) == Join(<<basePath, blobPath>>)

(* The organizer's fields as one value, for the operators above. *)
OrgFields ==
    [folderCounts |-> folderCounts, currentFolder |-> currentFolder,
     folderIndex |-> folderIndex]

(* The configurations considered.  The capacities are those of the        *)
(* package's tests rather than the thousands of a real run.               *)
OrgConfigs ==
    {OrgDefault}
    \cup {[OrgEnabled EXCEPT !.MaxFilesPerFolder = c] : c \in {1, 3}}
    \cup {[OrgEnabled EXCEPT !.MaxFilesPerFolder = 3, !.Strategy = "by_size"]}
    \cup {[OrgEnabled EXCEPT !.Strategy = "partition_key", !.PartitionDepth = d] :
             d \in {1, 2}}
    \cup {[OrgEnabled EXCEPT !.Strategy = "date"]}

(* What an earlier process may have left under the base path: nothing,    *)
(* numbered folders filled in part or in full, a folder and a file of     *)
(* another origin, partition folders.                                     *)
Trees ==
    LET Dir(name, files) == [name |-> name, isDir |-> TRUE, files |-> files]
        File(name) == [name |-> name, isDir |-> FALSE, files |-> 0]
    IN
    {<<>>,
     <<Dir("folder_0000", 0)>>,
     <<Dir("folder_0000", 1)>>,
     <<Dir("folder_0000", 3)>>,
     <<Dir("folder_0000", 3), Dir("folder_0001", 1)>>,
     <<Dir("folder_0000", 1), Dir("folder_0001", 3)>>,
     <<Dir("folder_0000", 3), Dir("folder_0001", 3)>>,
     <<Dir("folder_0000", 3), Dir("folder_0001", 2), File("notes.txt"),
       Dir("other", 1)>>,
     <<Dir("ca", 0), Dir("ca/97", 1)>>}

(* What an organizer is created with: the sequential configurations over *)
(* every tree, the others over an empty tree and a tree of partitions.    *)
OrgSetups ==
    {[cfg |-> c, tree |-> t] : c \in OrgConfigs, t \in Trees} \ 
    {[cfg |-> c, tree |-> t] :
        c \in {x \in OrgConfigs : ~x.Enabled \/ x.Strategy \in {"partition_key", "date"}},
        t \in {x \in Trees : x # <<>> /\ x[1].name # "ca"}}

(* The arguments callers pass, a blob's name and its path, in the order   *)
(* of the calls: two blobs in turn, or the second twice before the first. *)
InputA == [blobName |-> "a", blobPath |-> "a"]
InputB == [blobName |-> "b", blobPath |-> "dir/b"]
WorkLists ==
    {[i \in 1..MaxResolves |-> IF i % 2 = 1 THEN InputA ELSE InputB],
     [i \in 1..MaxResolves |-> IF i % 3 = 0 THEN InputA ELSE InputB]}

(* time.Now() as getDateFolder reads it: the day of the earlier calls or  *)
(* a later one.                                                           *)
DatesNow ==
    LET Dates == <<[Year |-> 2026, Month |-> 1, Day |-> 5],
                   [Year |-> 2026, Month |-> 10, Day |-> 29]>>
    IN {Dates[i] : i \in
          {i \in 1..Len(Dates) :
              \A j \in 1..Len(placed) :
                  \E k \in 1..i : placed[j] = getDateFolder(Dates[k])}}

(* A lock that excludes nobody. *)
LockableAlways(holder) == TRUE

(* o.mu.Lock() can return: no caller holds the lock. *)
Lockable(holder) == holder = NoCaller

InFlight == Cardinality({c \in CallerIds : caller[c].pc # "idle"})

OrganizerInit ==
    /\ SyncerInit
    /\ cfg = Default
    /\ watch = FALSE
    /\ remote = Keys
    /\ \E s \in OrgSetups : orgCfg = s.cfg /\ tree = s.tree
    /\ work \in WorkLists
    /\ NewOrganizer
    /\ NotClassifying

(* LoadState, called once after New and before the first GetTargetPath. *)
OrgLoadState ==
    /\ ~loaded
    /\ Len(placed) = 0
    /\ InFlight = 0
    /\ Lockable(mu)
    /\ loaded' = TRUE
    /\ LET o == IF ~orgCfg.Enabled THEN OrgFields
                ELSE IF orgCfg.Strategy = "sequential"
                THEN loadSequentialState(OrgFields, tree, orgCfg.MaxFilesPerFolder)
                ELSE IF orgCfg.Strategy \in {"partition_key", "date"}
                THEN loadPartitionedState(OrgFields, tree)
                ELSE OrgFields
       IN /\ folderCounts' = o.folderCounts
          /\ currentFolder' = o.currentFolder
          /\ folderIndex' = o.folderIndex
    /\ UNCHANGED <<syncerVars, classifyVars, orgCfg, tree, work, mu, caller, lastCaller, placed,
                   targets, past, gen>>

(* GetTargetPath with the organizer disabled: no lock, no tracking. *)
OrgResolveDisabled(c) ==
    /\ ~orgCfg.Enabled
    /\ caller[c].pc = "idle"
    /\ Len(placed) + InFlight < MaxResolves
    /\ LET in == work[Len(placed) + 1]
       IN /\ placed' = Append(placed, "")
          /\ targets' = targets \cup
                {[blobName |-> in.blobName, blobPath |-> in.blobPath,
                  target |-> disabledTarget(OutputPath, in.blobPath)]}
    /\ lastCaller' = c
    /\ UNCHANGED <<syncerVars, classifyVars, orgCfg, tree, work, folderCounts, currentFolder,
                   folderIndex, mu, caller, loaded, past, gen>>

(* GetTargetPath, enabled: o.mu.Lock() returns. *)
OrgLock(c) ==
    /\ orgCfg.Enabled
    /\ caller[c].pc = "idle"
    /\ Len(placed) + InFlight < MaxResolves
    /\ Lockable(mu)
    /\ mu' = c
    /\ caller' = [caller EXCEPT ![c] = [pc |-> "locked",
                                        args |-> work[Len(placed) + InFlight + 1],
                                        folder |-> ""]]
    /\ UNCHANGED <<syncerVars, classifyVars, orgCfg, tree, work, folderCounts, currentFolder,
                   folderIndex, lastCaller, loaded, placed, targets, past, gen>>

(* GetTargetPath: the switch on the strategy. *)
OrgFolder(c) ==
    /\ caller[c].pc = "locked"
    /\ IF orgCfg.Strategy = "partition_key"
       THEN /\ caller' = [caller EXCEPT ![c].pc = "chosen",
                             ![c].folder = getPartitionKeyFolder(orgCfg.PartitionDepth,
                                                                 caller[c].args.blobName)]
            /\ UNCHANGED <<currentFolder, folderIndex>>
       ELSE IF orgCfg.Strategy = "date"
       THEN /\ \E now \in DatesNow :
                 caller' = [caller EXCEPT ![c].pc = "chosen",
                                          ![c].folder = getDateFolder(now)]
            /\ UNCHANGED <<currentFolder, folderIndex>>
       ELSE LET o == getSequentialFolder(OrgFields, orgCfg.MaxFilesPerFolder)
            IN /\ currentFolder' = o.currentFolder
               /\ folderIndex' = o.folderIndex
               /\ caller' = [caller EXCEPT ![c].pc = "chosen",
                                           ![c].folder = o.currentFolder]
    /\ UNCHANGED <<syncerVars, classifyVars, orgCfg, tree, work, folderCounts, mu, lastCaller,
                   loaded, placed, targets, past, gen>>

(* GetTargetPath: the target path, trackFile, the deferred unlock and the *)
(* return.                                                                *)
OrgTrack(c) ==
    /\ caller[c].pc = "chosen"
    /\ folderCounts' = trackFile(folderCounts, caller[c].folder)
    /\ placed' = Append(placed, caller[c].folder)
    /\ targets' = targets \cup
          {[blobName |-> caller[c].args.blobName, blobPath |-> caller[c].args.blobPath,
            target |-> Join(<<OutputPath, caller[c].folder, caller[c].args.blobPath>>)]}
    /\ mu' = NoCaller
    /\ lastCaller' = c
    /\ caller' = [caller EXCEPT ![c] = [pc |-> "idle", args |-> NoArgs, folder |-> ""]]
    /\ UNCHANGED <<syncerVars, classifyVars, orgCfg, tree, work, currentFolder, folderIndex, loaded,
                   past, gen>>

(* The process ends and a later one calls New with the same              *)
(* configuration and base path.                                           *)
OrgNew ==
    /\ gen < MaxOrganizers
    /\ InFlight = 0
    /\ Len(placed) > 0
    /\ gen' = gen + 1
    /\ past' = past \cup targets
    /\ folderCounts' = <<>>
    /\ currentFolder' = ""
    /\ folderIndex' = 0
    /\ mu' = NoCaller
    /\ lastCaller' = NoCaller
    /\ loaded' = FALSE
    /\ placed' = <<>>
    /\ targets' = {}
    /\ UNCHANGED <<syncerVars, classifyVars, orgCfg, tree, work, caller>>

OrganizerNext ==
    \/ OrgLoadState
    \/ \E c \in CallerIds : OrgResolveDisabled(c)
    \/ \E c \in CallerIds : OrgLock(c)
    \/ \E c \in CallerIds : OrgFolder(c)
    \/ \E c \in CallerIds : OrgTrack(c)
    \/ OrgNew

OrganizerSpec == OrganizerInit /\ [][OrganizerNext]_vars

(* ------------------------ classification alone ------------------------- *)
(* The markers classifyError looks for, in the order of its tests. *)
Markers ==
    <<S_checksum, S_md5, S_network, S_timeout, S_connection, S_disk, S_space,
      S_permission, S_auth, S_unauthorized>>

(* The errors classified: a text wrapped as downloadBlob wraps a cause,   *)
(* naming no marker, one, or up to MaxMarkers distinct ones in every      *)
(* order; the errors the engine itself raises; a text whose marker is     *)
(* capitalised; the nil error.                                            *)
ErrorInputs ==
    LET RECURSIVE MarkerText(_, _)
        MarkerText(picks, i) ==
            IF i > Len(picks) THEN <<>>
            ELSE IF i = Len(picks) THEN Markers[picks[i]]
            ELSE Markers[picks[i]] \o <<",", " ">> \o MarkerText(picks, i + 1)
        MarkerPicks ==
            UNION {{p \in [1..n -> 1..Len(Markers)] :
                       \A i, j \in 1..n : i # j => p[i] # p[j]} : n \in 0..MaxMarkers}
    IN {P_downloadFailed \o MarkerText(p, 1) : p \in MarkerPicks}
       \cup {ErrText[e] : e \in ErrIds}
       \cup {<<"N","e","t","w","o","r","k"," ","d","o","w","n">>, NilError}

ClassifyInit ==
    /\ SyncerInit
    /\ cfg = Default
    /\ watch = FALSE
    /\ remote = Keys
    /\ orgCfg = OrgDefault
    /\ tree = <<>>
    /\ work = <<>>
    /\ NewOrganizer
    /\ errIn \in ErrorInputs
    /\ errKind = Nil
    /\ errRetry = FALSE

(* processBlob's use of the two functions on the error of an attempt. *)
Classify ==
    /\ errKind = Nil
    /\ errKind' = classifyError(errIn)
    /\ errRetry' = isRetryable(errIn)
    /\ UNCHANGED <<syncerVars, orgVars, errIn>>

ClassifySpec == ClassifyInit /\ [][Classify]_vars

(* ======================================================================= *)
(* Claims                                                                  *)
(* ======================================================================= *)
PassReturnedOk == phase = "idle" /\ result = "ok"

StatusOf(k) == IF blobState[k] = NoRecord THEN "none" ELSE blobState[k].Status

(* The final path of object k holds nothing, or k's content in full. *)
FinalPathSound(k) ==
    LET f == fs[LocalPathOf(k)]
    IN f = NoFile \/ (f.full /\ f.obj = k)

(* C1: at every moment the file at any object's final local path is absent *)
(* or holds that object's complete content (a committed version); it never *)
(* holds partially written content, whatever the interleaving of workers,  *)
(* failures and cancellation.                                              *)
C1_AtomicCommit == \A k \in remote : FinalPathSound(k)

(* C2: after Start() has returned from a pass that went through discovery, *)
(* download and completion, no record discovered in that pass is pending:  *)
(* each is downloaded, failed or skipped.                                  *)
C2_NoPendingAfterPass ==
    PassReturnedOk =>
        \A k \in discovered :
            StatusOf(k) \in {BlobStatusDownloaded, BlobStatusFailed, BlobStatusSkipped}

(* The object can be fetched and verified: verification is off, or its     *)
(* reference hash is absent or right.                                      *)
Fetchable(k) ==
    \/ ~cfg.VerifyChecksums
    \/ Objects[k].ContentMD5 = NoMD5
    \/ Objects[k].ContentMD5 = Digest(k)

(* C3: runs are resumable.  When a process was replaced while records were *)
(* pending and never downloaded, and the later pass runs uninterrupted and *)
(* without any failure over the unchanged container, with skip-existing    *)
(* enabled, each of those objects ends downloaded with its file at its     *)
(* local path.                                                             *)
C3_Resumable ==
    (PassReturnedOk /\ ~cancelled /\ cfg.SkipExisting /\ faults = 1) =>
        \A k \in owed :
            Fetchable(k) =>
                /\ StatusOf(k) = BlobStatusDownloaded
                /\ fs[LocalPathOf(k)] # NoFile

(* An earlier pass over the same container has completed. *)
EarlierPassCompleted ==
    \E r \in 1..Len(syncRuns) : r < runID /\ syncRuns[r].Status = SyncStatusCompleted

(* C4: idempotence.  When an earlier pass has completed and the container  *)
(* is unchanged, a pass with skip-existing enabled and force-resync        *)
(* disabled marks every object skipped, finds no pending record and makes  *)
(* no DownloadBlob call.                                                   *)
C4_Idempotent ==
    (PassReturnedOk /\ EarlierPassCompleted /\ cfg.SkipExisting /\ ~cfg.ForceResync) =>
        /\ \A k \in remote : StatusOf(k) = BlobStatusSkipped
        /\ snapshot = {}
        /\ ~fetched

(* A second pass over a container of two objects has returned, the first   *)
(* pass having downloaded one of them.                                     *)
C4_Witness ==
    /\ PassReturnedOk /\ EarlierPassCompleted /\ cfg.SkipExisting /\ ~cfg.ForceResync
    /\ Cardinality(remote) = 2
    /\ everDownloaded # {}
    /\ \A k \in remote : StatusOf(k) = BlobStatusSkipped

C6_PageLoopTerminates == listCalls <= NumPages(remote)

(* C7: once Stop() has returned no worker is running, and none runs later. *)
C7_StopDrains ==
    stop = "returned" => \A w \in WorkerIds : pc[w] \in {"off", "exited"}

(* C8: after cancellation is signalled no worker takes an item from the    *)
(* queue and no worker starts another retry attempt.                       *)
C8_NoNewWorkAfterCancel ==
    [][cancelled =>
        \A w \in WorkerIds :
            /\ ~(pc[w] = "select" /\ pc'[w] = "attempt")
            /\ ~(/\ pc[w] = "attempt" /\ attempt[w] > 0
                 /\ pc'[w] \in {"fetch", "select"})]_vars

(* C9: processBlob makes at most 3 attempts for an item, and an attempt    *)
(* after the first is made only when the previous one failed with an error *)
(* classified network or checksum: an error classified disk, auth or       *)
(* unknown ends the item.                                                  *)
C9_RetryPolicy ==
    \A w \in WorkerIds :
        /\ attempt[w] < 3
        /\ attempt[w] > 0 =>
            /\ lastErr[w] \in ErrIds
            /\ classifyError(ErrText[lastErr[w]]) \in {ErrorTypeNetwork, ErrorTypeChecksum}

(* A worker is in its third attempt, and another in an attempt that        *)
(* follows a network error.                                                *)
C9_Witness ==
    /\ \E w \in WorkerIds : pc[w] = "fetch" /\ attempt[w] = 2
    /\ \E w \in WorkerIds : attempt[w] > 0 /\ ErrClass[lastErr[w]] = ErrorTypeNetwork

(* The error log entries of the current run for object k. *)
LogOf(k) == {e \in errorLog : e.SyncRunID = runID /\ e.BlobName = k}

(* C10: with verification enabled, an object whose content never matches   *)
(* its reference hash (every attempt fetched, none matched) is attempted   *)
(* exactly 3 times, gets one checksum entry in the error log per attempt   *)
(* with retry counts 0, 1 and 2, and ends failed with the checksum error   *)
(* message; no temporary file of the worker is left between attempts.      *)
C10_ChecksumExhausted ==
    /\ \A k \in processed :
        (cfg.VerifyChecksums /\ ~Fetchable(k) /\ k \notin dirty) =>
            /\ StatusOf(k) = BlobStatusFailed
            /\ blobState[k].ErrorMessage = "E_CHECKSUM"
            /\ {[t |-> e.ErrorType, n |-> e.RetryCount] : e \in LogOf(k)}
                 = {[t |-> ErrorTypeChecksum, n |-> n] : n \in 0..2}
    /\ \A w \in WorkerIds :
        (pc[w] = "attempt" /\ attempt[w] > 0 /\ lastErr[w] = "E_CHECKSUM") =>
            \A p \in Paths : fs[p] # NoFile => fs[p].ino # w

(* Object "b" has been processed with verification on and no other fault. *)
C10_Witness ==
    /\ cfg.VerifyChecksums
    /\ "b" \in processed /\ "b" \notin dirty
    /\ StatusOf("b") = BlobStatusFailed
    /\ Cardinality(LogOf("b")) = 3

(* C11: a terminal failure of one item neither stops the pool nor fails    *)
(* the run.  The step that records an item as failed returns its worker    *)
(* to the queue and leaves the context, the queue, the other workers, the  *)
(* phase and the sync run as they are; and when a pass that was not        *)
(* cancelled has returned, every item of its pending snapshot has been     *)
(* processed to downloaded or failed and its sync run is completed.        *)
C11_FailureIsLocal ==
    [][/\ \A w \in WorkerIds :
            (/\ pc[w] \in {"attempt", "fetch"}
             /\ pc'[w] = "select"
             /\ blobState'[item[w].BlobName].Status = BlobStatusFailed) =>
                /\ cancelled' = cancelled
                /\ queue' = queue
                /\ phase' = phase
                /\ syncRuns' = syncRuns
                /\ wg' = wg
                /\ \A v \in WorkerIds \ {w} : pc'[v] = pc[v]
       /\ (phase' = "idle" /\ result' = "ok" /\ ~cancelled') =>
            /\ \A k \in snapshot' :
                  /\ k \in processed'
                  /\ blobState'[k].Status \in {BlobStatusDownloaded, BlobStatusFailed}
            /\ syncRuns'[runID'].Status = SyncStatusCompleted]_vars

(* A pass that was not cancelled has returned with one item of its         *)
(* snapshot failed and another downloaded.                                 *)
C11_Witness ==
    /\ phase = "idle" /\ result = "ok" /\ ~cancelled
    /\ \E k \in snapshot : blobState[k].Status = BlobStatusFailed
    /\ \E k \in snapshot : blobState[k].Status = BlobStatusDownloaded
    /\ syncRuns[runID].Status = SyncStatusCompleted

(* C12: the disk stop is process-wide.  Once an item of the pass has been  *)
(* ended by a usage reading at or above the stop threshold, no worker      *)
(* starts a download attempt (creates a temporary file and fetches) during *)
(* the rest of that pass.                                                  *)
C12_DiskStopHaltsPool ==
    [][(\E k \in processed :
            /\ blobState[k].Status = BlobStatusFailed
            /\ blobState[k].ErrorMessage = "E_STOP") =>
        \A w \in WorkerIds : ~(pc[w] = "attempt" /\ pc'[w] = "fetch")]_vars

(* C13: the pre-flight disk check.  The step in which an attempt is ended  *)
(* by a usage reading at or above the stop threshold makes no fetch and    *)
(* creates no file, logs no retry, returns the worker to the queue and     *)
(* leaves the record failed with the disk message; records that were       *)
(* downloaded keep that status, and afterwards no final path holds a       *)
(* partial file.                                                           *)
C13_DiskStopPreflight ==
    [][\A w \in WorkerIds :
        (/\ pc[w] = "attempt"
         /\ pc'[w] = "select"
         /\ blobState'[item[w].BlobName].ErrorMessage = "E_STOP") =>
            /\ fs' = fs
            /\ fetched' = fetched
            /\ errorLog' = errorLog
            /\ blobState'[item[w].BlobName].Status = BlobStatusFailed
            /\ \A k \in Keys :
                 (blobState[k] # NoRecord /\ blobState[k].Status = BlobStatusDownloaded)
                    => blobState'[k].Status = BlobStatusDownloaded
            /\ \A k \in remote :
                 fs'[LocalPathOf(k)] # NoFile =>
                    /\ fs'[LocalPathOf(k)].full
                    /\ fs'[LocalPathOf(k)].obj = k]_vars

(* C14: a breach of the disk stop threshold during the download phase      *)
(* aborts the pass.  When Start() has returned from a pass in which an     *)
(* item was ended by a reading at or above the stop threshold, it has      *)
(* returned an error and the sync run is failed, not completed.            *)
C14_DiskStopFailsRun ==
    (/\ phase = "idle" /\ result # "none"
     /\ \E k \in processed :
          /\ blobState[k].Status = BlobStatusFailed
          /\ blobState[k].ErrorMessage = "E_STOP") =>
        /\ result = "err"
        /\ syncRuns[runID].Status = SyncStatusFailed

(* C15: a failed listing call aborts the pass.  When Start() has returned  *)
(* an error, the sync run is failed with the listing error's message and   *)
(* an end time, and the pass took no pending snapshot, started no worker   *)
(* and made no fetch.                                                      *)
C15_ListFailureAbortsPass ==
    (phase = "idle" /\ result = "err") =>
        /\ syncRuns[runID].Status = SyncStatusFailed
        /\ syncRuns[runID].ErrorMessage = "failed to list blobs"
        /\ syncRuns[runID].CompletedAt # Nil
        /\ snapshot = {} /\ processed = {} /\ ~fetched
        /\ \A w \in WorkerIds : pc[w] \in {"off", "exited"}

(* The remote store failed a listing call of a pass that was not          *)
(* cancelled, after an earlier call of the same discovery had succeeded.  *)
C15_Witness ==
    /\ phase = "idle" /\ result = "err" /\ ~cancelled
    /\ discovered # {}
    /\ syncRuns[runID].Status = SyncStatusFailed

RECURSIVE SumBytes(_)
(* The sum of size_bytes over the records of the names in S. *)
SumBytes(S) ==
    IF S = {} THEN 0
    ELSE LET k == CHOOSE x \in S : TRUE
         IN blobState[k].SizeBytes + SumBytes(S \ {k})

(* The names the current run downloaded, by the records of the store. *)
DownloadedIn(id) ==
    {k \in Keys : /\ blobState[k] # NoRecord
                  /\ blobState[k].Status = BlobStatusDownloaded
                  /\ blobState[k].SyncRunID = id}

(* C16: when complete() has finished, the sync run is completed with an   *)
(* end time, and its counts equal the values recomputed from the records  *)
(* of the pass: total = records discovered, downloaded = records the run  *)
(* downloaded, failed = records the pass left failed, bytes = the sizes   *)
(* of the downloaded records.                                             *)
C16_AggregateCounts ==
    (phase = "idle" /\ result = "ok") =>
        LET run == syncRuns[runID]
        IN /\ run.Status = SyncStatusCompleted
           /\ run.CompletedAt # Nil
           /\ run.TotalFiles = Cardinality(discovered)
           /\ run.DownloadedFiles = Cardinality(DownloadedIn(runID))
           /\ run.FailedFiles =
                Cardinality({k \in processed : blobState[k].Status = BlobStatusFailed})
           /\ run.TotalBytes = SumBytes(DownloadedIn(runID))

(* C17: a pass over an empty state store that meets no failure and is not  *)
(* cancelled ends with every object downloaded and its run completed.  The *)
(* first pass of the first process, over a container whose objects can all *)
(* be fetched and verified, leads to Start() having returned nil with      *)
(* every record downloaded and the run completed, unless a failure or a    *)
(* cancellation comes first.                                               *)
C17_CleanPassCompletes ==
    (/\ phase = "discovery" /\ Len(syncRuns) = 1
     /\ faults = 0 /\ ~cancelled
     /\ \A k \in remote : Fetchable(k))
        ~> \/ faults > 0
           \/ cancelled
           \/ /\ phase = "idle" /\ result = "ok"
              /\ \A k \in remote :
                    /\ blobState[k] # NoRecord
                    /\ blobState[k].Status = BlobStatusDownloaded
              /\ syncRuns[1].Status = SyncStatusCompleted

(* C18: the status discovery assigns.  In every iteration of discovery's   *)
(* page loop, each listed object's record ends pending when no record      *)
(* existed; pending when force-resync is set; otherwise skipped when the   *)
(* stored entity tag and last-modified time equal the listed ones and      *)
(* skip-existing is set; otherwise pending.  In every branch the record    *)
(* carries the listed size, entity tag, time and hash.                     *)
C18_DiscoveryStatus ==
    [][(/\ phase = "discovery"
        /\ phase' \in {"discovery", "download"}
        /\ (listCalls' # listCalls \/ blobState' # blobState \/ phase' # phase)) =>
        \A i \in 1..Min(BatchSize, Len(Listing(remote, 1))) :
            LET k == Listing(remote, 1)[i]
                o == Objects[k]
                old == blobState[k]
                new == blobState'[k]
            IN /\ new # NoRecord
               /\ new.Status =
                    IF old = NoRecord THEN BlobStatusPending
                    ELSE IF cfg.ForceResync THEN BlobStatusPending
                    ELSE IF /\ old.ETag = o.ETag
                            /\ old.LastModified = o.LastModified
                            /\ cfg.SkipExisting
                         THEN BlobStatusSkipped
                         ELSE BlobStatusPending
               /\ new.SizeBytes = o.ContentLength
               /\ new.ETag = o.ETag
               /\ new.LastModified = o.LastModified
               /\ new.ContentMD5 =
                    IF o.ContentMD5 = NoMD5 THEN NoMD5 ELSE Hex(o.ContentMD5)]_vars

(* With skip-existing set and force-resync not, discovery has refreshed a  *)
(* record that existed before the pass and has left it pending: the record *)
(* described an earlier version of the object.                             *)
C18_Witness ==
    /\ cfg.SkipExisting /\ ~cfg.ForceResync
    /\ listCalls >= 1
    /\ blobState["a"] # NoRecord
    /\ blobState["a"].FirstSeenAt = ZeroTime
    /\ blobState["a"].Status = BlobStatusPending
    /\ blobState["a"].ETag = Objects["a"].ETag

(* The records a client gave to UpsertBlobState for name k, in order. *)
CallsFor(k) == SelectSeq(calls, LAMBDA c : c.BlobName = k)

(* C19: UpsertBlobState is an insert-or-update keyed by the name.  After   *)
(* any sequence of calls the table has one row for each name given and no  *)
(* other row, the rows standing in the order of the first calls for their  *)
(* names; the record of a name has the first-seen time of the first call   *)
(* for the name and in every other field the value of the last call.       *)
C19_UpsertLastWriteWins ==
    LET rows == blobState["rowids"]
        RECURSIVE FirstCalls(_)
        FirstCalls(i) ==
            IF i > Len(calls) THEN <<>>
            ELSE IF \E j \in 1..(i - 1) : calls[j].BlobName = calls[i].BlobName
                 THEN FirstCalls(i + 1)
                 ELSE <<calls[i].BlobName>> \o FirstCalls(i + 1)
    IN /\ rows = FirstCalls(1)
       /\ \A k \in Keys :
             LET cs == CallsFor(k)
             IN IF Len(cs) = 0
                THEN GetBlobState(blobState, k) = NoRecord
                ELSE GetBlobState(blobState, k) =
                         [cs[Len(cs)] EXCEPT !.FirstSeenAt = cs[1].FirstSeenAt]

(* C19 witness: four calls, the second for "b" and the others for "a",     *)
(* with a later first-seen time, another entity tag and another status in  *)
(* the last call for "a" than in the first; the table has the rows of "a"  *)
(* and "b" in that order.                                                  *)
C19_Witness ==
    LET cs == CallsFor("a")
    IN /\ Len(calls) = 4
       /\ calls[2].BlobName = "b"
       /\ Len(cs) = 3
       /\ cs[3].FirstSeenAt # cs[1].FirstSeenAt
       /\ cs[3].ETag # cs[1].ETag
       /\ cs[3].Status # cs[1].Status
       /\ blobState["a"].FirstSeenAt = cs[1].FirstSeenAt
       /\ blobState["a"].ETag = cs[3].ETag
       /\ blobState["rowids"] = <<"a", "b">>

(* C20: the pending snapshot.  download() queues exactly the records that  *)
(* are pending when it calls GetPendingBlobs, as they are at that moment;  *)
(* afterwards the queue only loses its head, whatever is upserted; and a   *)
(* worker only ever processes an item of that snapshot.                    *)
C20_PendingSnapshot ==
    [][/\ (phase = "download" /\ phase' \in {"spawn", "complete"}) =>
            LET P == {k \in Keys : /\ blobState[k] # NoRecord
                                   /\ blobState[k].Status = BlobStatusPending}
            IN /\ snapshot' = P
               /\ (phase' = "complete") = (P = {})
               /\ phase' = "spawn" =>
                    /\ Len(queue') = Cardinality(P)
                    /\ \A i \in 1..Len(queue') :
                          /\ queue'[i].BlobName \in P
                          /\ queue'[i] = blobState[queue'[i].BlobName]
       /\ (phase # "download" /\ runID' = runID) =>
            \/ queue' = queue
            \/ Len(queue) > 0 /\ queue' = Tail(queue)
       /\ \A w \in WorkerIds :
            pc'[w] \in {"attempt", "fetch"} => item'[w].BlobName \in snapshot'
       /\ processed' \subseteq snapshot']_vars

(* An item is still queued, as pending, after another record of the       *)
(* snapshot has been upserted as failed.                                   *)
C20_Witness ==
    /\ Len(queue) > 0
    /\ \E k \in snapshot : blobState[k].Status = BlobStatusFailed
    /\ \A i \in 1..Len(queue) :
          /\ queue[i].Status = BlobStatusPending
          /\ queue[i].BlobName \in snapshot

(* ------------------------- writers of the status ----------------------- *)
(* C21: every step that changes a record of the state store is either a   *)
(* step of discovery, and the record it leaves is pending or skipped, or  *)
(* a step of the worker that holds the record's item, and the record it   *)
(* leaves is downloaded or failed; no other step changes a record.        *)
C21_StatusWritesPartitioned ==
    [][\A k \in Keys :
          blobState'[k] # blobState[k] =>
            /\ blobState'[k] # NoRecord
            /\ \/ /\ phase = "discovery"
                  /\ pc' = pc
                  /\ blobState'[k].Status \in {BlobStatusPending, BlobStatusSkipped}
               \/ /\ phase # "discovery"
                  /\ \E w \in WorkerIds :
                        /\ pc[w] \in {"attempt", "fetch"}
                        /\ item[w].BlobName = k
                        /\ pc'[w] = "select"
                  /\ blobState'[k].Status \in {BlobStatusDownloaded, BlobStatusFailed}]_vars

(* C21 witness: a worker wrote downloaded into a record in the first pass *)
(* and discovery wrote skipped over it in the second.                     *)
C21_Witness ==
    /\ runID = 2
    /\ \E k \in Keys :
          /\ blobState[k] # NoRecord
          /\ blobState[k].Status = BlobStatusSkipped
          /\ k \in everDownloaded

(* ------------------------- the history of runs ------------------------- *)
(* C22: every call of Start appends one sync run with status running and  *)
(* makes it the current run, nothing else adds or removes a run, and a    *)
(* run whose status is completed or failed is the same record after every *)
(* later step.                                                            *)
C22_RunsAppendOnly ==
    [][/\ \A id \in 1..Len(syncRuns) :
             syncRuns[id].Status \in {SyncStatusCompleted, SyncStatusFailed} =>
                /\ id <= Len(syncRuns')
                /\ syncRuns'[id] = syncRuns[id]
       /\ IF phase = "idle" /\ phase' = "discovery"
          THEN /\ Len(syncRuns') = Len(syncRuns) + 1
               /\ SubSeq(syncRuns', 1, Len(syncRuns)) = syncRuns
               /\ syncRuns'[Len(syncRuns')].Status = SyncStatusRunning
               /\ runID' = Len(syncRuns')
          ELSE Len(syncRuns') = Len(syncRuns)]_vars

(* C22 witness: the first run completed, and a second pass ran and failed *)
(* after it.                                                              *)
C22_Witness ==
    /\ Len(syncRuns) = 2
    /\ syncRuns[1].Status = SyncStatusCompleted
    /\ syncRuns[2].Status = SyncStatusFailed

(* --------------------------- folder organizer -------------------------- *)
(* The bucket index a folder name carries. *)
BucketOf(folder) == SscanfFolder(folder).idx

(* C23: in a sequential organizer of capacity C on which LoadState was    *)
(* not run, the i-th GetTargetPath call to return (counted from 0) was    *)
(* given the folder named folder_NNNN with NNNN = floor(i / C).           *)
C23_SequentialBuckets ==
    (orgCfg.Enabled /\ orgCfg.Strategy = "sequential" /\ ~loaded) =>
        \A i \in 1..Len(placed) :
            /\ SscanfFolder(placed[i]).n = 1
            /\ Len(placed[i]) = 11
            /\ BucketOf(placed[i]) = (i - 1) \div orgCfg.MaxFilesPerFolder

(* C23 witness: capacity 3 and ten calls, in buckets 0,0,0,1,1,1,2,2,2,3. *)
C23_Witness ==
    /\ orgCfg.Enabled /\ orgCfg.Strategy = "sequential" /\ ~loaded
    /\ orgCfg.MaxFilesPerFolder = 3
    /\ Len(placed) = 10
    /\ [i \in 1..10 |-> BucketOf(placed[i])] = <<0, 0, 0, 1, 1, 1, 2, 2, 2, 3>>

(* C24: after LoadState on a tree of numbered folders a sequential        *)
(* organizer resumes at the highest-index folder below capacity (or after *)
(* the highest), never gives a folder that already holds C files (those   *)
(* of the tree and those placed by the calls before), never goes back to  *)
(* a lower index and never skips one.                                     *)
C24_ResumeAfterLoad ==
    LET NumberedDirs ==
            {i \in 1..Len(tree) :
                /\ tree[i].isDir
                /\ Len(SplitPath(tree[i].name, 1, "")) = 1
                /\ SscanfFolder(tree[i].name).n = 1}
        TreeFiles(folder) ==
            IF \E i \in 1..Len(tree) : tree[i].isDir /\ tree[i].name = folder
            THEN tree[CHOOSE i \in 1..Len(tree) :
                        tree[i].isDir /\ tree[i].name = folder].files
            ELSE 0
        HeldBefore(i) ==
            TreeFiles(placed[i])
                + Cardinality({j \in 1..(i - 1) : placed[j] = placed[i]})
        Max(S) == CHOOSE x \in S : \A y \in S : y <= x
        under == {BucketOf(tree[i].name) : i \in
                    {j \in NumberedDirs : tree[j].files < orgCfg.MaxFilesPerFolder}}
        all == {BucketOf(tree[i].name) : i \in NumberedDirs}
        ResumeIndex == IF under # {} THEN Max(under)
                       ELSE IF all # {} THEN Max(all) + 1
                       ELSE 0
    IN (orgCfg.Enabled /\ orgCfg.Strategy = "sequential" /\ loaded) =>
          /\ Len(placed) >= 1 => BucketOf(placed[1]) = ResumeIndex
          /\ \A i \in 2..Len(placed) :
                /\ BucketOf(placed[i]) >= BucketOf(placed[i - 1])
                /\ BucketOf(placed[i]) <= BucketOf(placed[i - 1]) + 1
          /\ \A i \in 1..Len(placed) : HeldBefore(i) < orgCfg.MaxFilesPerFolder

(* C25: with the hash-partition strategy the path GetTargetPath returned  *)
(* is fixed by the base path, the depth, the name and the blob's path     *)
(* alone: the base path, then the first depth pairs of hexadecimal digits *)
(* of the name's SHA-256 digest, one directory each, then the blob's      *)
(* path.  So any two calls with the same name and path returned the same  *)
(* path, whatever calls were made in between, on one organizer or on two  *)
(* created one after the other, with or without LoadState; and no call    *)
(* reads or moves the sequential cursor.                                  *)
C25_PartitionDeterministic ==
    [][(orgCfg.Enabled /\ orgCfg.Strategy = "partition_key") =>
          LET Pairs(name) ==
                  [i \in 1..orgCfg.PartitionDepth |->
                      CharAt(Sha256Hex[name], 2 * i - 1) \o CharAt(Sha256Hex[name], 2 * i)]
          IN /\ \A r \in targets' \cup past' :
                   SplitPath(r.target, 1, "") =
                       SplitPath(Join(<<OutputPath>>), 1, "")
                           \o Pairs(r.blobName) \o SplitPath(r.blobPath, 1, "")
             /\ \A r1, r2 \in targets' \cup past' :
                   (r1.blobName = r2.blobName /\ r1.blobPath = r2.blobPath) =>
                       r1.target = r2.target
             /\ <<currentFolder, folderIndex>>' = <<currentFolder, folderIndex>>]_vars

(* C25 witness: two organizers of depth 2 one after the other, each asked *)
(* for both names, the second after LoadState found partition folders;    *)
(* the second has answered at least three calls, and every call for "a"   *)
(* returned data/ca/97/a, every call for "b" data/3e/23/dir/b.            *)
C25_Witness ==
    /\ orgCfg.Enabled /\ orgCfg.Strategy = "partition_key"
    /\ orgCfg.PartitionDepth = 2
    /\ gen = 2 /\ loaded /\ Len(tree) > 0
    /\ Len(placed) >= 3
    /\ \A in \in {InputA, InputB} :
          /\ \E r \in past : r.blobName = in.blobName /\ r.blobPath = in.blobPath
          /\ \E r \in targets : r.blobName = in.blobName /\ r.blobPath = in.blobPath
    /\ {r.target : r \in targets \cup past} = {"data/ca/97/a", "data/3e/23/dir/b"}

(* The calls of the current organizer that were given bucket b. *)
PlacedIn(b) == Cardinality({i \in 1..Len(placed) : BucketOf(placed[i]) = b})

(* C26: on a sequential organizer of capacity C on which LoadState was    *)
(* not run, whatever the interleaving of the callers, when K calls have   *)
(* returned each of the buckets 0..floor(K/C)-1 was given exactly C of    *)
(* them and bucket floor(K/C) the K mod C others, no tracked count        *)
(* exceeds C, the counts tracked are those, and the tracked total is K.   *)
C26_ConcurrentResolve ==
    (orgCfg.Enabled /\ orgCfg.Strategy = "sequential" /\ ~loaded) =>
        LET K == Len(placed)
            C == orgCfg.MaxFilesPerFolder
        IN /\ \A i \in 1..K : BucketOf(placed[i]) \in 0..(K \div C)
           /\ \A b \in 0..(K \div C) :
                 /\ PlacedIn(b) = IF b < K \div C THEN C ELSE K % C
                 /\ CountOf(folderCounts, SequentialFolderName(b)) = PlacedIn(b)
           /\ \A f \in DOMAIN folderCounts : folderCounts[f] <= C
           /\ GetStats(orgCfg, OrgFields).total_files = K

(* C26 witness: capacity 3, seven calls have returned, the last of them   *)
(* made by the first caller, and the second caller has taken the lock for *)
(* the eighth.                                                            *)
C26_Witness ==
    /\ orgCfg.Enabled /\ orgCfg.Strategy = "sequential" /\ ~loaded
    /\ orgCfg.MaxFilesPerFolder = 3
    /\ Len(placed) = 7
    /\ lastCaller = 1
    /\ mu = 2
    /\ [b \in 0..2 |-> PlacedIn(b)] = [b \in 0..2 |-> IF b < 2 THEN 3 ELSE 1]

(* C27: with folder organization enabled, the local path recorded for a   *)
(* downloaded blob, under which its file is stored, is a path the         *)
(* organizer resolves for the blob's name and path: with the sequential   *)
(* strategy, the blob's path inside one of the numbered folders under the *)
(* output directory (both paths as filepath.Clean writes them).           *)
C27_OrganizedLocalPath ==
    orgCfg.Enabled =>
        \A k \in Keys :
            (blobState[k] # NoRecord /\ blobState[k].Status = BlobStatusDownloaded) =>
                \E n \in 0..MaxResolves :
                    /\ Join(<<blobState[k].LocalPath>>) =
                          Join(<<OutputPath,
                                 getSequentialFolder(
                                     [folderCounts |-> <<>>, currentFolder |-> "",
                                      folderIndex |-> n],
                                     orgCfg.MaxFilesPerFolder).currentFolder,
                                 blobState[k].BlobPath>>)
                    /\ fs[blobState[k].LocalPath] # NoFile

(* C28: with the organizer disabled every GetTargetPath call returned the *)
(* output directory, as filepath.Clean writes it, followed by the         *)
(* elements of the blob's path, and no step (a call, LoadState) changes   *)
(* folderCounts, currentFolder, folderIndex or the lock.                  *)
C28_DisabledIdentity ==
    [][~orgCfg.Enabled =>
          /\ <<folderCounts, currentFolder, folderIndex, mu>>' =
                <<folderCounts, currentFolder, folderIndex, mu>>
          /\ \A r \in targets' :
                SplitPath(r.target, 1, "") =
                    SplitPath(Join(<<OutputPath>>), 1, "")
                        \o SplitPath(r.blobPath, 1, "")]_vars

(* C28 witness: a disabled organizer, after LoadState, has answered three *)
(* calls for two blobs with data/a and data/dir/b, and tracks nothing.    *)
C28_Witness ==
    /\ ~orgCfg.Enabled
    /\ loaded
    /\ Len(placed) >= 3
    /\ {r.target : r \in targets} = {"data/a", "data/dir/b"}
    /\ folderCounts = <<>> /\ currentFolder = "" /\ folderIndex = 0

(* ------------------------------ error log ------------------------------ *)
(* C29: every step of a worker that ends an attempt in failure (the item  *)
(* goes to its next attempt, or its record becomes failed) appends        *)
(* exactly one entry to the error log, with the id of the current run,    *)
(* the blob's name, the kind classifyError gives the error and the        *)
(* attempt's index counted from 0; the entry is there when the step ends, *)
(* before the next attempt and its backoff sleep begin.                   *)
C29_FailedAttemptLogged ==
    [][\A w \in WorkerIds :
          (/\ pc[w] \in {"attempt", "fetch"}
           /\ \/ pc'[w] = "attempt" /\ attempt'[w] = attempt[w] + 1
              \/ /\ pc'[w] = "select"
                 /\ blobState'[item[w].BlobName].Status = BlobStatusFailed) =>
             \E e \in errorLog' \ errorLog :
                /\ errorLog' = errorLog \cup {e}
                /\ e.SyncRunID = runID
                /\ e.BlobName = item[w].BlobName
                /\ e.ErrorType = classifyError(ErrText[e.ErrorMessage])
                /\ e.RetryCount = attempt[w]]_vars

(* ---------------------------- classification --------------------------- *)
(* The marker occurs in the text. *)
Occurs(marker, text) ==
    \E i \in 1..(Len(text) - Len(marker) + 1) :
        SubSeq(text, i, i + Len(marker) - 1) = marker

(* C30: classifyError gives every error one of the five kinds, the one of *)
(* the first marker group present in its text in the order checksum,      *)
(* network, disk, auth, and unknown when no marker is present or the      *)
(* error is nil; isRetryable holds exactly when that kind is network or   *)
(* checksum.                                                              *)
C30_ClassifyPrecedence ==
    LET KindByPrecedence ==
            IF \E i \in {1, 2} : Occurs(Markers[i], errIn) THEN ErrorTypeChecksum
            ELSE IF \E i \in {3, 4, 5} : Occurs(Markers[i], errIn) THEN ErrorTypeNetwork
            ELSE IF \E i \in {6, 7, 8} : Occurs(Markers[i], errIn) THEN ErrorTypeDisk
            ELSE IF \E i \in {9, 10} : Occurs(Markers[i], errIn) THEN ErrorTypeAuth
            ELSE ErrorTypeUnknown
    IN errKind # Nil =>
          /\ errKind \in {ErrorTypeNetwork, ErrorTypeChecksum, ErrorTypeDisk,
                          ErrorTypeAuth, ErrorTypeUnknown}
          /\ errKind = KindByPrecedence
          /\ errRetry <=> errKind \in {ErrorTypeNetwork, ErrorTypeChecksum}

(* C30 witness: an error naming a network marker before a checksum marker *)
(* was classified checksum and retryable.                                 *)
C30_Witness ==
    /\ errKind = ErrorTypeChecksum
    /\ errRetry
    /\ Occurs(S_md5, errIn)
    /\ Occurs(S_connection, errIn)
    /\ indexOf(errIn, S_connection) < indexOf(errIn, S_md5)

(* ------------------------- the command loop ---------------------------- *)
(* C31: when a pass fails, runSync returns the error and starts no        *)
(* further pass unless watch mode is on; in watch mode it goes to sleep,  *)
(* starts no pass while asleep, and is back at the call of Start when the *)
(* sleep ends.  A pass is only ever started from the call of Start.       *)
C31_LoopOnFailure ==
    [][/\ (phase # "idle" /\ phase' = "idle" /\ result' = "err") =>
              loop' = IF watch THEN "sleep" ELSE "return err"
       /\ (loop = "return err" /\ ~NewProcess) => UNCHANGED <<loop, syncRuns>>
       /\ (loop = "sleep" /\ ~NewProcess) =>
              /\ syncRuns' = syncRuns
              /\ loop' \in {"sleep", "start"}
       /\ Len(syncRuns') > Len(syncRuns) => loop = "start" /\ loop' = "start"]_vars

(* C31 witness: in watch mode the first pass failed on the listing and    *)
(* the loop is asleep before the next pass.                               *)
C31_Witness ==
    /\ watch
    /\ loop = "sleep"
    /\ result = "err"
    /\ Len(syncRuns) = 1
    /\ syncRuns[1].Status = SyncStatusFailed
    /\ ~cancelled

(* C32: the phases of a pass run in order.  A worker goroutine runs only  *)
(* between its start in download() and the return of wg.Wait(), so after  *)
(* discovery has returned; a run becomes completed only in complete(),    *)
(* with every worker of the pass exited; and a pass enters discovery only *)
(* from Start, the run of the Syncer's previous pass being completed or   *)
(* failed by then.  The end of the process, by a panic or otherwise, is   *)
(* no step of a pass.                                                     *)
C32_PhasesInOrder ==
    [][LET Running(p) == {w \in WorkerIds : p[w] \in {"select", "attempt", "fetch"}}
           Order == {<<"idle", "discovery">>, <<"discovery", "discovery">>,
                     <<"discovery", "download">>, <<"discovery", "idle">>,
                     <<"download", "spawn">>, <<"download", "complete">>,
                     <<"spawn", "spawn">>, <<"spawn", "wait">>,
                     <<"wait", "complete">>, <<"complete", "idle">>}
       IN /\ (phase' # phase /\ phase' # "panic" /\ ~NewProcess) =>
                 <<phase, phase'>> \in Order
          /\ Running(pc') # {} => phase' \in {"spawn", "wait"}
          /\ Running(pc') \ Running(pc) # {} => phase = "spawn" /\ discovered # {}
          /\ (/\ Len(syncRuns') = Len(syncRuns)
              /\ \E i \in DOMAIN syncRuns :
                    /\ syncRuns'[i].Status = SyncStatusCompleted
                    /\ syncRuns[i].Status # SyncStatusCompleted) =>
                 /\ phase = "complete"
                 /\ Running(pc) = {}
                 /\ wg = 0
          /\ (phase # "discovery" /\ phase' = "discovery") =>
                 /\ phase = "idle"
                 /\ runID # 0 =>
                       syncRuns[runID].Status \in {SyncStatusCompleted, SyncStatusFailed}]_vars

(* C32 witness: the second pass of a watch loop is in its download phase  *)
(* with a worker fetching, the run of the first pass being completed      *)
(* after workers had processed an item.                                   *)
C32_Witness ==
    /\ watch
    /\ Len(syncRuns) = 2
    /\ syncRuns[1].Status = SyncStatusCompleted
    /\ syncRuns[2].Status = SyncStatusRunning
    /\ phase = "wait"
    /\ \E w \in WorkerIds : pc[w] = "fetch"
    /\ everDownloaded # {}
    /\ stop = "none"
    /\ faults = 1

(* C33: whenever a record has status downloaded, the file at the record's *)
(* local path exists and holds that object's content in full.             *)
C33_DownloadedHasFile ==
    \A k \in Keys :
        StatusOf(k) = BlobStatusDownloaded =>
            LET f == fs[blobState[k].LocalPath]
            IN f # NoFile /\ f.full /\ f.obj = k

(* C34: whenever a record has status skipped, the object was downloaded   *)
(* at some earlier time: discovery never marks skipped a record that has  *)
(* never been downloaded.                                                 *)
C34_SkippedWasDownloaded ==
    \A k \in Keys : StatusOf(k) = BlobStatusSkipped => k \in everDownloaded

(* C35: during the download phase every name of the pending snapshot is   *)
(* in exactly one place: still in the queue (once), held by exactly one   *)
(* worker, or processed; so no two workers hold the same object or the    *)
(* same temporary path.  When download() has returned and the context was *)
(* not cancelled, every name of the snapshot has been processed.          *)
C35_OneWorkerPerItem ==
    LET Queued == {queue[i].BlobName : i \in 1..Len(queue)}
        Busy == {w \in WorkerIds : pc[w] \in {"attempt", "fetch"}}
        Held == {item[w].BlobName : w \in Busy}
    IN phase \in {"spawn", "wait", "complete"} =>
          /\ \A i, j \in 1..Len(queue) : i # j => queue[i].BlobName # queue[j].BlobName
          /\ \A v, w \in Busy :
                v # w => /\ item[v].BlobName # item[w].BlobName
                         /\ TmpPathOf(item[v].LocalPath) # TmpPathOf(item[w].LocalPath)
          /\ \A w \in WorkerIds \ Busy : item[w] = NoRecord
          /\ Queued \cup Held \cup processed = snapshot
          /\ Queued \cap Held = {}
          /\ Queued \cap processed = {}
          /\ Held \cap processed = {}
          /\ (phase = "complete" /\ ~cancelled) => processed = snapshot

(* C35 witness: the two workers are fetching the two objects of the       *)
(* snapshot at the same time, the queue being empty.                      *)
C35_Witness ==
    /\ phase = "wait"
    /\ ~cancelled
    /\ \A w \in WorkerIds : pc[w] = "fetch"
    /\ Cardinality(snapshot) = 2
    /\ item[0].BlobName # item[1].BlobName
    /\ Len(queue) = 0

(* C36: the download phase terminates.  Once download() has been entered, *)
(* every worker it starts eventually exits and download() returns (the    *)
(* pass reaches completion with no worker running and the wait group at   *)
(* zero), whatever the items, the failures of the attempts and the moment *)
(* of a cancellation; otherwise the process was replaced.                 *)
C36_DownloadTerminates ==
    (phase = "download") ~>
        \/ /\ phase = "complete"
           /\ wg = 0
           /\ \A w \in WorkerIds : pc[w] \in {"off", "exited"}
        \/ runID = 0

(* C37: once Stop() has been called on a Syncer that has run a pass, the  *)
(* command's loop starts no further pass.                                 *)
C37_NoPassAfterStop ==
    [][(stop # "none" /\ runID # 0) => Len(syncRuns') = Len(syncRuns)]_vars

(* C38: the run of the current pass has status completed only if every    *)
(* item of the pass's pending snapshot was processed and its record is    *)
(* downloaded or failed; a pass whose download phase was cancelled by     *)
(* Stop() with items unprocessed is not recorded as completed.            *)
C38_CompletedMeansProcessed ==
    (runID # 0 /\ syncRuns[runID].Status = SyncStatusCompleted) =>
        \A k \in snapshot :
            /\ k \in processed
            /\ StatusOf(k) \in {BlobStatusDownloaded, BlobStatusFailed}

(* C39: a download attempt that fails after its temporary file was        *)
(* created (the fetch fails, the checksum does not match, or the rename   *)
(* fails) leaves the file at the object's final path as it was and no     *)
(* file at the object's temporary path; the creation of the temporary     *)
(* file leaves the final path as it was, too.                             *)
C39_FailedAttemptFrame ==
    [][\A w \in WorkerIds :
          LET final == item[w].LocalPath
              FailedNow ==
                  \E e \in errorLog' \ errorLog :
                      /\ e.BlobName = item[w].BlobName
                      /\ e.ErrorMessage \in {"E_NETWORK", "E_AUTH", "E_CANCELED",
                                             "E_CHECKSUM", "E_RENAME"}
          IN pc[w] \in {"attempt", "fetch"} =>
                /\ (pc[w] = "attempt" /\ pc'[w] = "fetch") => fs'[final] = fs[final]
                /\ FailedNow => /\ fs'[final] = fs[final]
                                /\ fs'[TmpPathOf(final)] = NoFile]_vars

(* C39 witness: an attempt to download an object again has failed on the  *)
(* network, the checksum or the rename; the committed file of the earlier *)
(* download is at the final path and the temporary path is empty.         *)
C39_Witness ==
    \E w \in WorkerIds :
        /\ pc[w] = "attempt"
        /\ attempt[w] >= 1
        /\ lastErr[w] \in {"E_NETWORK", "E_CHECKSUM", "E_RENAME"}
        /\ fs[item[w].LocalPath] # NoFile
        /\ fs[item[w].LocalPath].full
        /\ fs[item[w].LocalPath].obj = item[w].BlobName
        /\ fs[TmpPathOf(item[w].LocalPath)] = NoFile
        /\ item[w].BlobName \in everDownloaded
====
